---------------------------- MODULE Spec2Model ----------------------------
(***************************************************************************)
(* A model of the resilience primitives of hire.ai                         *)
(* (src/agents/core/resilience.py): the circuit breaker, the token bucket  *)
(* rate limiter, the retry and timeout wrappers; and of the service        *)
(* container (src/agents/core/dependency_injection.py).                    *)
(*                                                                         *)
(* The breaker holds no lock.  A call through the wrapper is modelled      *)
(* statement by statement, one action per statement that reads or writes   *)
(* the breaker, and `x += 1` as a read followed by a write.  For the       *)
(* synchronous wrapper any caller (thread) may take the next step; for     *)
(* the asynchronous wrapper the callers are coroutines on one event loop,  *)
(* which switch only at `await func(...)`.                                 *)
(*                                                                         *)
(* time.time() is the integer clock `now`; it advances by Tick.  Where a    *)
(* duration is converted to whole seconds, one second is TicksPerSecond    *)
(* ticks of the clock.                                                     *)
(***************************************************************************)
EXTENDS Integers, Sequences, FiniteSets, TLC

(***************************************************************************)
(* Bounds of the model.                                                    *)
(***************************************************************************)
MaxTime == 5
MaxThreshold == 2
MaxRecovery == 2
NumCallers == 2
MaxCalls == 2
MaxFailures == 4
MaxBucket == 2
MaxWindow == 2
MaxAcquire == 2
MaxAttempts == 3
MaxTimeout == 2
MaxInstances == 3
MaxDepth == 3
MaxRegistrations == 2
MaxScopes == 2
MaxDbJobs == 2
MaxScrapedJobs == 2
MaxScrapeThreshold == 3
MaxResults == 4
MaxBaseDelay == 2
MaxExponentialBase == 2
MaxMaxDelay == 3
MaxReturnCode == 2
TicksPerSecond == 2

Callers == 1..NumCallers

(* CircuitState, resilience.py:29-33 *)
CLOSED == "closed"
OPEN == "open"
HALF_OPEN == "half_open"
CircuitState == {CLOSED, OPEN, HALF_OPEN}

VARIABLES
    now,        \* time.time()
    mode,       \* "sync": _sync_wrapper (threads); "async": _async_wrapper (coroutines)
    cfg,        \* CircuitBreakerConfig
    cb,         \* the CircuitBreaker's fields
    pc,         \* each caller's position in wrapper / _on_success / _on_failure
    tmp,        \* each caller's operand of the `+= 1` it is executing
    call,       \* history of each caller's current (or last) call
    failRun,    \* history: failing calls since the last successful call
    halfSucc,   \* history: successful calls since HALF_OPEN was last entered
    maxRun,     \* history: the longest run of failing calls so far
    everOk,     \* history: whether any call has succeeded
    left,       \* workload: the calls each caller may still start
    healthy,    \* environment: the wrapped operation no longer fails
    rlcfg,      \* RateLimitConfig
    rl,         \* the RateLimiter's fields
    acq,        \* history of the last acquire
    rlhist,     \* history of the bucket since it was created
    rlcall,     \* history of the last call through RateLimiter.__call__
    rpc,        \* each thread's position in acquire / _refill
    rloc,       \* each thread's local variables in acquire / _refill
    rleft,      \* workload: the acquire calls each thread may still start
    rgrant,     \* history: the tokens granted to the threads
    rcfg,       \* RetryConfig: max_attempts and retryable_exceptions
    rdelay,     \* RetryConfig: base_delay, max_delay, exponential_base, jitter
    rwrapper,   \* "sync": _sync_retry_wrapper; "async": _async_retry_wrapper
    rt,         \* position and locals of the call through the retry wrapper
    rthist,     \* history of the call through the retry wrapper
    tocfg,      \* timeout(seconds): the limit, and which wrapper it made
    to,         \* position and locals of the call through the timeout wrapper
    tohist,     \* history of the call through the timeout wrapper
    di,         \* the ServiceContainer's fields
    dih,        \* history of the container's resolutions
    dires,      \* the last call of the container's interface, and its result
    dilock,     \* the thread that holds the container's RLock (0: nobody)
    dipc,       \* each thread's position in register / get_required_service
    diloc,      \* each thread's call: its arguments, locals and result
    hsreq,      \* HybridSearchRequest
    hs,         \* position and locals of search_jobs_intelligently
    hsres,      \* what search_jobs_intelligently returned
    sj          \* JobScraperTool.scrape_jobs under its decorators

conf == <<mode, cfg, left, healthy>>
hist == <<failRun, halfSucc, maxRun, everOk>>
cbvars == <<now, conf, cb, pc, tmp, call, hist>>

rlvars == <<rlcfg, rl, acq, rlhist, rlcall>>
rlthreads == <<rpc, rloc, rleft, rgrant>>

rtvars == <<rcfg, rdelay, rwrapper, rt, rthist>>
tovars == <<tocfg, to, tohist>>
divars == <<di, dih, dires>>
dithreads == <<dilock, dipc, diloc>>
hsvars == <<hsreq, hs, hsres>>
sjvars == <<sj>>

(* what the breaker's steps leave alone *)
others == <<rlvars, rlthreads, rtvars, tovars, divars, dithreads,
    hsvars, sjvars>>

(* what the rate limiter's steps leave alone, the clock apart *)
notRL == <<conf, cb, pc, tmp, call, hist, rtvars, tovars, divars, dithreads,
    hsvars, sjvars>>

(* what the retry wrapper's steps leave alone *)
notRetry == <<cbvars, rlvars, rlthreads, tovars, divars, dithreads,
    hsvars, sjvars>>

(* what the timeout wrapper's steps leave alone *)
notTimeout == <<cbvars, rlvars, rlthreads, rtvars, divars, dithreads,
    hsvars, sjvars>>

(* what the container's steps leave alone *)
notDI == <<cbvars, rlvars, rlthreads, rtvars, tovars, dithreads, hsvars, sjvars>>

(* what the steps of the container's threads leave alone *)
notDIThreads == <<cbvars, rlvars, rlthreads, rtvars, tovars, dires, hsvars, sjvars>>

(* what the hybrid search's steps leave alone *)
notHybrid == <<cbvars, rlvars, rlthreads, rtvars, tovars, divars, dithreads,
    sjvars>>

(* what the steps of scrape_jobs leave alone *)
notScrape == <<cbvars, rlvars, rlthreads, rtvars, tovars, divars, dithreads,
    hsvars>>

vars == <<cbvars, rlvars, rlthreads, rtvars, tovars, divars, dithreads,
    hsvars, sjvars>>

(***************************************************************************)
(* CircuitBreakerConfig: thresholds and cooldown are positive.             *)
(***************************************************************************)
CircuitBreakerConfig ==
    [failure_threshold : 1..MaxThreshold,
     recovery_timeout  : 1..MaxRecovery,
     success_threshold : 1..MaxThreshold]

(* a caller that never stops calling *)
Unlimited == -1

(* CircuitBreaker.__init__ *)
NewBreaker ==
    [state |-> CLOSED, failure_count |-> 0, success_count |-> 0,
     last_failure_time |-> 0]

(* func.__name__ of the wrapped operation *)
FuncName == "func"

NoCall ==
    [out |-> "none", service_name |-> "", inv |-> FALSE,
     st0 |-> CLOSED, stRun |-> CLOSED, fc0 |-> 0,
     elapsed |-> -1, tfail |-> -1]

CBInit ==
    /\ now = 1
    /\ mode \in {"sync", "async"}
    /\ cfg \in CircuitBreakerConfig
    /\ cb = NewBreaker
    /\ pc = [c \in Callers |-> "idle"]
    /\ tmp = [c \in Callers |-> 0]
    /\ call = [c \in Callers |-> NoCall]
    /\ failRun = 0
    /\ halfSucc = 0
    /\ maxRun = 0
    /\ everOk = FALSE
    /\ healthy = FALSE
    /\ left = [c \in Callers |-> Unlimited]

(***************************************************************************)
(* Scheduling.  A coroutine runs until it awaits: while one caller of the  *)
(* async wrapper is between two awaits no other caller takes a step.       *)
(***************************************************************************)
AtAwait(c) == pc[c] \in {"idle", "running"}

MayStep(c) == mode = "sync" \/ \A d \in Callers \ {c} : AtAwait(d)

(* the call returns or raises: `out` is what the caller gets *)
Done(c, out) ==
    /\ pc' = [pc EXCEPT ![c] = "idle"]
    /\ call' = [call EXCEPT ![c].out = out]

Goto(c, l) == pc' = [pc EXCEPT ![c] = l]

(* variant: the comparison of _should_attempt_reset turned around *)
ShouldAttemptResetLE ==
    (now - cb.last_failure_time) <= cfg.recovery_timeout

(* _should_attempt_reset *)
ShouldAttemptReset ==
    (now - cb.last_failure_time) >= cfg.recovery_timeout

(***************************************************************************)
(* wrapper: the admission check.                                           *)
(***************************************************************************)
(* `if self.state == CircuitState.OPEN:` *)
CheckOpen(c) ==
    /\ pc[c] = "idle" /\ MayStep(c)
    /\ left[c] # 0
    /\ left' = [left EXCEPT ![c] = IF @ = Unlimited THEN @ ELSE @ - 1]
    /\ call' = [call EXCEPT ![c] = [NoCall EXCEPT !.out = "pending",
                                        !.st0 = cb.state, !.stRun = cb.state,
                                        !.fc0 = cb.failure_count]]
    /\ Goto(c, IF cb.state = OPEN THEN "chk_reset" ELSE "invoke")
    /\ UNCHANGED <<now, mode, cfg, healthy, cb, tmp, hist, others>>

(* variant: the rejection is counted as a failure of the operation *)
CheckResetCounted(c) ==
    /\ pc[c] = "chk_reset" /\ MayStep(c)
    /\ IF ShouldAttemptReset
         THEN /\ Goto(c, "set_half")
              /\ call' = [call EXCEPT ![c].elapsed = now - cb.last_failure_time]
              /\ UNCHANGED cb
         ELSE /\ pc' = [pc EXCEPT ![c] = "idle"]
              /\ call' = [call EXCEPT ![c].elapsed = now - cb.last_failure_time,
                                      ![c].out = "CircuitBreakerError",
                                      ![c].service_name = FuncName]
              /\ cb' = [cb EXCEPT !.last_failure_time = now]
    /\ UNCHANGED <<now, conf, tmp, hist, others>>

(* `if self._should_attempt_reset():` ... `else: raise CircuitBreakerError` *)
CheckReset(c) ==
    /\ pc[c] = "chk_reset" /\ MayStep(c)
    /\ IF ShouldAttemptReset
         THEN /\ Goto(c, "set_half")
              /\ call' = [call EXCEPT ![c].elapsed = now - cb.last_failure_time]
         ELSE /\ pc' = [pc EXCEPT ![c] = "idle"]
              /\ call' = [call EXCEPT ![c].elapsed = now - cb.last_failure_time,
                                      ![c].out = "CircuitBreakerError",
                                      ![c].service_name = FuncName]
    /\ UNCHANGED <<now, conf, cb, tmp, hist, others>>

(* `self.state = CircuitState.HALF_OPEN` *)
SetHalfOpen(c) ==
    /\ pc[c] = "set_half" /\ MayStep(c)
    /\ cb' = [cb EXCEPT !.state = HALF_OPEN]
    /\ Goto(c, "set_sc0")
    /\ halfSucc' = 0
    /\ UNCHANGED <<now, conf, tmp, call, failRun, maxRun, everOk, others>>

(* variant: HALF_OPEN entered without resetting success_count *)
ResetSuccessCountSkip(c) ==
    /\ pc[c] = "set_sc0" /\ MayStep(c)
    /\ Goto(c, "invoke")
    /\ UNCHANGED <<now, conf, cb, tmp, call, hist, others>>

(* `self.success_count = 0` *)
ResetSuccessCount(c) ==
    /\ pc[c] = "set_sc0" /\ MayStep(c)
    /\ cb' = [cb EXCEPT !.success_count = 0]
    /\ Goto(c, "invoke")
    /\ UNCHANGED <<now, conf, tmp, call, hist, others>>

(* `result = func(...)`: the wrapped operation starts *)
Invoke(c) ==
    /\ pc[c] = "invoke" /\ MayStep(c)
    /\ call' = [call EXCEPT ![c].inv = TRUE, ![c].stRun = cb.state]
    /\ Goto(c, "running")
    /\ UNCHANGED <<now, conf, cb, tmp, hist, others>>

(* the wrapped operation returns *)
ReturnOk(c) ==
    /\ pc[c] = "running" /\ MayStep(c)
    /\ Goto(c, "succ_chk")
    /\ failRun' = 0
    /\ halfSucc' = IF halfSucc <= MaxThreshold THEN halfSucc + 1 ELSE halfSucc
    /\ everOk' = TRUE
    /\ UNCHANGED <<now, conf, cb, tmp, call, maxRun, others>>

(* the wrapped operation raises an instance of config.expected_exception *)
RaiseExpected(c) ==
    /\ pc[c] = "running" /\ MayStep(c)
    /\ Goto(c, "fail_rd")
    /\ ~healthy
    /\ cb.failure_count < MaxFailures
    /\ failRun' = IF failRun <= MaxThreshold THEN failRun + 1 ELSE failRun
    /\ maxRun' = IF failRun' > maxRun THEN failRun' ELSE maxRun
    /\ UNCHANGED <<now, conf, cb, tmp, call, halfSucc, everOk, others>>

(* the wrapped operation raises something else: neither _on_success nor
   _on_failure runs *)
RaiseOther(c) ==
    /\ pc[c] = "running" /\ MayStep(c)
    /\ ~healthy
    /\ Done(c, "other")
    /\ UNCHANGED <<now, conf, cb, tmp, hist, others>>

(***************************************************************************)
(* _on_success                                                             *)
(***************************************************************************)
(* variant: _on_success without its `elif self.state == CLOSED` branch *)
SuccCheckStateNoClosed(c) ==
    /\ pc[c] = "succ_chk" /\ MayStep(c)
    /\ IF cb.state = HALF_OPEN THEN Goto(c, "succ_rd") /\ UNCHANGED call
       ELSE Done(c, "ok")
    /\ UNCHANGED <<now, conf, cb, tmp, hist, others>>

(* variant: _on_success counting successes only while OPEN *)
SuccCheckStateWrongState(c) ==
    /\ pc[c] = "succ_chk" /\ MayStep(c)
    /\ IF cb.state = OPEN THEN Goto(c, "succ_rd") /\ UNCHANGED call
       ELSE IF cb.state = CLOSED THEN Goto(c, "succ_fc0") /\ UNCHANGED call
       ELSE Done(c, "ok")
    /\ UNCHANGED <<now, conf, cb, tmp, hist, others>>

(* `if self.state == HALF_OPEN:` ... `elif self.state == CLOSED:` *)
SuccCheckState(c) ==
    /\ pc[c] = "succ_chk" /\ MayStep(c)
    /\ IF cb.state = HALF_OPEN THEN Goto(c, "succ_rd") /\ UNCHANGED call
       ELSE IF cb.state = CLOSED THEN Goto(c, "succ_fc0") /\ UNCHANGED call
       ELSE Done(c, "ok")
    /\ UNCHANGED <<now, conf, cb, tmp, hist, others>>

(* `self.success_count += 1`: the read *)
SuccRead(c) ==
    /\ pc[c] = "succ_rd" /\ MayStep(c)
    /\ tmp' = [tmp EXCEPT ![c] = cb.success_count]
    /\ Goto(c, "succ_wr")
    /\ UNCHANGED <<now, conf, cb, call, hist, others>>

(* `self.success_count += 1`: the write *)
SuccWrite(c) ==
    /\ pc[c] = "succ_wr" /\ MayStep(c)
    /\ cb' = [cb EXCEPT !.success_count = tmp[c] + 1]
    /\ tmp' = [tmp EXCEPT ![c] = 0]
    /\ Goto(c, "succ_thr")
    /\ UNCHANGED <<now, conf, call, hist, others>>

(* variant: `>` for `>=` in the success threshold test *)
SuccThresholdGT(c) ==
    /\ pc[c] = "succ_thr" /\ MayStep(c)
    /\ IF cb.success_count > cfg.success_threshold
         THEN Goto(c, "succ_close") /\ UNCHANGED call
         ELSE Done(c, "ok")
    /\ UNCHANGED <<now, conf, cb, tmp, hist, others>>

(* `if self.success_count >= self.config.success_threshold:` *)
SuccThreshold(c) ==
    /\ pc[c] = "succ_thr" /\ MayStep(c)
    /\ IF cb.success_count >= cfg.success_threshold
         THEN Goto(c, "succ_close") /\ UNCHANGED call
         ELSE Done(c, "ok")
    /\ UNCHANGED <<now, conf, cb, tmp, hist, others>>

(* `self.state = CircuitState.CLOSED` *)
SuccClose(c) ==
    /\ pc[c] = "succ_close" /\ MayStep(c)
    /\ cb' = [cb EXCEPT !.state = CLOSED]
    /\ Goto(c, "succ_fc0")
    /\ UNCHANGED <<now, conf, tmp, call, hist, others>>

(* `self.failure_count = 0` (after closing, and on a success while CLOSED) *)
SuccResetFailures(c) ==
    /\ pc[c] = "succ_fc0" /\ MayStep(c)
    /\ cb' = [cb EXCEPT !.failure_count = 0]
    /\ Done(c, "ok")
    /\ UNCHANGED <<now, conf, tmp, hist, others>>

(***************************************************************************)
(* _on_failure                                                             *)
(***************************************************************************)
(* `self.failure_count += 1`: the read *)
FailRead(c) ==
    /\ pc[c] = "fail_rd" /\ MayStep(c)
    /\ tmp' = [tmp EXCEPT ![c] = cb.failure_count]
    /\ Goto(c, "fail_wr")
    /\ UNCHANGED <<now, conf, cb, call, hist, others>>

(* `self.failure_count += 1`: the write *)
FailWrite(c) ==
    /\ pc[c] = "fail_wr" /\ MayStep(c)
    /\ cb' = [cb EXCEPT !.failure_count = tmp[c] + 1]
    /\ tmp' = [tmp EXCEPT ![c] = 0]
    /\ Goto(c, "fail_lft")
    /\ UNCHANGED <<now, conf, call, hist, others>>

(* `self.last_failure_time = time.time()` *)
FailStamp(c) ==
    /\ pc[c] = "fail_lft" /\ MayStep(c)
    /\ cb' = [cb EXCEPT !.last_failure_time = now]
    /\ call' = [call EXCEPT ![c].tfail = now]
    /\ Goto(c, "fail_chk")
    /\ UNCHANGED <<now, conf, tmp, hist, others>>

(* variant: `>` for `>=` in the failure threshold test *)
FailCheckStateGT(c) ==
    /\ pc[c] = "fail_chk" /\ MayStep(c)
    /\ IF \/ cb.state = HALF_OPEN
          \/ cb.state = CLOSED /\ cb.failure_count > cfg.failure_threshold
         THEN Goto(c, "fail_open") /\ UNCHANGED call
         ELSE Done(c, "raised")
    /\ UNCHANGED <<now, conf, cb, tmp, hist, others>>

(* variant: _on_failure without its `if self.state == HALF_OPEN` branch *)
FailCheckStateNoHalf(c) ==
    /\ pc[c] = "fail_chk" /\ MayStep(c)
    /\ IF cb.state = CLOSED /\ cb.failure_count >= cfg.failure_threshold
         THEN Goto(c, "fail_open") /\ UNCHANGED call
         ELSE Done(c, "raised")
    /\ UNCHANGED <<now, conf, cb, tmp, hist, others>>

(* `if self.state == HALF_OPEN:` ... `elif (self.state == CLOSED and
   self.failure_count >= self.config.failure_threshold):` *)
FailCheckState(c) ==
    /\ pc[c] = "fail_chk" /\ MayStep(c)
    /\ IF \/ cb.state = HALF_OPEN
          \/ cb.state = CLOSED /\ cb.failure_count >= cfg.failure_threshold
         THEN Goto(c, "fail_open") /\ UNCHANGED call
         ELSE Done(c, "raised")
    /\ UNCHANGED <<now, conf, cb, tmp, hist, others>>

(* `self.state = CircuitState.OPEN`, then the wrapper's `raise` *)
FailOpen(c) ==
    /\ pc[c] = "fail_open" /\ MayStep(c)
    /\ cb' = [cb EXCEPT !.state = OPEN]
    /\ Done(c, "raised")
    /\ UNCHANGED <<now, conf, tmp, hist, others>>

(***************************************************************************)
(* Time passes.                                                            *)
(***************************************************************************)
Tick ==
    /\ now < MaxTime
    /\ now' = now + 1
    /\ UNCHANGED <<conf, cb, pc, tmp, call, hist, others>>

(***************************************************************************)
(* RateLimiter: a token bucket.  `tokens` is a float that _refill moves by *)
(* (elapsed / time_window) * max_calls: with the clock in whole units it   *)
(* is a multiple of 1 / time_window, and rl.tokens holds it in that unit   *)
(* (rl.tokens = time_window * self.tokens), exactly.  Whole(n) is n tokens.*)
(***************************************************************************)
RateLimitConfig ==
    [max_calls : 1..MaxBucket, time_window : 1..MaxWindow]

Whole(n) == n * rlcfg.time_window

Min(a, b) == IF a <= b THEN a ELSE b

(* variant: a bucket created empty *)
NewLimiterEmpty(t) == [tokens |-> 0, last_refill |-> t]

(* RateLimiter.__init__ *)
NewLimiter(t) == [tokens |-> Whole(rlcfg.max_calls), last_refill |-> t]

NoAcquire ==
    [n |-> -1, ret |-> FALSE, before |-> 0, elapsed |-> 0, refilled |-> 0,
     at |-> 0, nth |-> -1, emptied |-> -1]

(* born: when the bucket was created.  run: how many acquire() calls (one
   token each) have been made, as long as nothing else has been asked of
   the bucket and no more than max_calls + 1 of them; -1 afterwards.
   emptied: when an acquire took the last token, no token having been
   taken since; -1 if there is no such moment. *)
NewHistory(t) == [born |-> t, run |-> 0, emptied |-> -1]

NoRLCall == [out |-> "none", acquired |-> FALSE, invoked |-> 0, retry_after |-> -1]

NoLocals == [now |-> 0, elapsed |-> 0, val |-> 0]

RLStart ==
    /\ rl = NewLimiter(now)
    /\ acq = NoAcquire
    /\ rlhist = NewHistory(now)
    /\ rlcall = NoRLCall
    /\ rpc = [c \in Callers |-> "idle"]
    /\ rloc = [c \in Callers |-> NoLocals]
    /\ rgrant = 0

RLInit ==
    /\ rlcfg \in RateLimitConfig
    /\ RLStart
    /\ rleft = [c \in Callers |-> 0]

(* a limiter nobody uses *)
RLIdle ==
    /\ rlcfg = [max_calls |-> 1, time_window |-> 1]
    /\ RLStart
    /\ rleft = [c \in Callers |-> 0]

(* variant: _refill without the cap at max_calls *)
RefillNoCap(r, t) ==
    IF t - r.last_refill > 0
      THEN [tokens |-> r.tokens + (t - r.last_refill) * rlcfg.max_calls,
            last_refill |-> t]
      ELSE r

(* _refill at time t: tokens_to_add = (elapsed / time_window) * max_calls *)
Refill(r, t) ==
    IF t - r.last_refill > 0
      THEN [tokens |-> Min(Whole(rlcfg.max_calls),
                           r.tokens + (t - r.last_refill) * rlcfg.max_calls),
            last_refill |-> t]
      ELSE r

(* variant: `>` for `>=` in acquire *)
TakeGT(r, n) ==
    IF r.tokens > Whole(n)
      THEN [ret |-> TRUE, rl |-> [r EXCEPT !.tokens = @ - Whole(n)]]
      ELSE [ret |-> FALSE, rl |-> r]

(* acquire after _refill: `if self.tokens >= tokens:` *)
Take(r, n) ==
    IF r.tokens >= Whole(n)
      THEN [ret |-> TRUE, rl |-> [r EXCEPT !.tokens = @ - Whole(n)]]
      ELSE [ret |-> FALSE, rl |-> r]

(* the history after acquire(n) gave `got` *)
NextHistory(n, got) ==
    [born |-> rlhist.born,
     run |-> IF rlhist.run = -1 \/ n # 1 \/ rlhist.run > rlcfg.max_calls
               THEN -1 ELSE rlhist.run + 1,
     emptied |-> IF got.ret /\ n >= 1
                   THEN (IF got.rl.tokens = 0 THEN now ELSE -1)
                   ELSE rlhist.emptied]

(* the body of acquire(tokens=n): _refill, then the test and the deduction *)
DoAcquire(n) ==
    LET r == Refill(rl, now)
        got == Take(r, n)
    IN  /\ rl' = got.rl
        /\ rlhist' = NextHistory(n, got)
        /\ acq' = [n |-> n, ret |-> got.ret, before |-> rl.tokens,
                   elapsed |-> now - rl.last_refill, refilled |-> r.tokens,
                   at |-> now, nth |-> rlhist'.run,
                   emptied |-> rlhist.emptied]

(* RateLimiter.acquire(tokens=n) *)
Acquire(n) ==
    /\ DoAcquire(n)
    /\ UNCHANGED <<now, rlcfg, rlcall, rlthreads, notRL>>

(* int(x) of a duration of x ticks, in seconds: truncation *)
IntSeconds(ticks) == ticks \div TicksPerSecond

(* the wrapper made by RateLimiter.__call__: acquire() or RateLimitError,
   then func(...), which returns or raises *)
RateLimited ==
    /\ DoAcquire(1)
    /\ IF acq'.ret
         THEN \E o \in {"returned", "raised"} :
                 rlcall' = [out |-> o, acquired |-> TRUE, invoked |-> 1,
                            retry_after |-> -1]
         ELSE rlcall' = [out |-> "RateLimitError", acquired |-> FALSE,
                         invoked |-> 0,
                         retry_after |-> IntSeconds(rlcfg.time_window)]
    /\ UNCHANGED <<now, rlcfg, rlthreads, notRL>>

(***************************************************************************)
(* Threads sharing one RateLimiter.  acquire and _refill hold no lock: a   *)
(* call of acquire() by thread c is modelled statement by statement, and   *)
(* a statement that reads self.tokens and then writes it as a read         *)
(* followed by a write.                                                    *)
(***************************************************************************)
RGoto(c, l) == rpc' = [rpc EXCEPT ![c] = l]

(* what a thread's step leaves alone besides the bucket and its locals *)
RFrame == UNCHANGED <<now, rlcfg, acq, rlhist, rlcall, notRL>>

(* thread c calls acquire() *)
AcqStart(c) ==
    /\ rpc[c] = "idle"
    /\ rleft[c] > 0
    /\ rleft' = [rleft EXCEPT ![c] = @ - 1]
    /\ RGoto(c, "refill")
    /\ UNCHANGED <<rl, rloc, rgrant>>
    /\ RFrame

(* now = time.time(); elapsed = now - self.last_refill; if elapsed > 0: *)
RefillElapsed(c) ==
    /\ rpc[c] = "refill"
    /\ rloc' = [rloc EXCEPT ![c].now = now,
                            ![c].elapsed = now - rl.last_refill]
    /\ RGoto(c, IF now - rl.last_refill > 0 THEN "refill_read" ELSE "test")
    /\ UNCHANGED <<rl, rleft, rgrant>>
    /\ RFrame

(* the right-hand side of
   self.tokens = min(self.config.max_calls, self.tokens + tokens_to_add) *)
RefillRead(c) ==
    /\ rpc[c] = "refill_read"
    /\ rloc' = [rloc EXCEPT ![c].val =
                   Min(Whole(rlcfg.max_calls),
                       rl.tokens + rloc[c].elapsed * rlcfg.max_calls)]
    /\ RGoto(c, "refill_write")
    /\ UNCHANGED <<rl, rleft, rgrant>>
    /\ RFrame

(* the assignment to self.tokens *)
RefillWrite(c) ==
    /\ rpc[c] = "refill_write"
    /\ rl' = [rl EXCEPT !.tokens = rloc[c].val]
    /\ RGoto(c, "refill_stamp")
    /\ UNCHANGED <<rloc, rleft, rgrant>>
    /\ RFrame

(* self.last_refill = now *)
RefillStamp(c) ==
    /\ rpc[c] = "refill_stamp"
    /\ rl' = [rl EXCEPT !.last_refill = rloc[c].now]
    /\ RGoto(c, "test")
    /\ UNCHANGED <<rloc, rleft, rgrant>>
    /\ RFrame

(* if self.tokens >= tokens: ... else return False *)
AcqTest(c) ==
    /\ rpc[c] = "test"
    /\ RGoto(c, IF rl.tokens >= Whole(1) THEN "take_read" ELSE "idle")
    /\ UNCHANGED <<rl, rloc, rleft, rgrant>>
    /\ RFrame

(* self.tokens -= tokens: the read *)
AcqRead(c) ==
    /\ rpc[c] = "take_read"
    /\ rloc' = [rloc EXCEPT ![c].val = rl.tokens]
    /\ RGoto(c, "take_write")
    /\ UNCHANGED <<rl, rleft, rgrant>>
    /\ RFrame

(* self.tokens -= tokens: the write; return True *)
AcqWrite(c) ==
    /\ rpc[c] = "take_write"
    /\ rl' = [rl EXCEPT !.tokens = rloc[c].val - Whole(1)]
    /\ rgrant' = rgrant + 1
    /\ RGoto(c, "idle")
    /\ UNCHANGED <<rloc, rleft>>
    /\ RFrame

RStep(c) ==
    \/ AcqStart(c) \/ RefillElapsed(c) \/ RefillRead(c) \/ RefillWrite(c)
    \/ RefillStamp(c) \/ AcqTest(c) \/ AcqRead(c) \/ AcqWrite(c)

(***************************************************************************)
(* Exceptions.  An exception is a class and the invocation of the wrapped  *)
(* operation that raised it (0: raised by the wrapper itself); two         *)
(* exceptions are the same object when both agree.                         *)
(***************************************************************************)
Classes ==
    {"Exception", "TypeError", "OSError", "ConnectionError", "TimeoutError",
     "SubprocessError", "TimeoutExpired",
     "HireAIError", "ScrapingError", "ValidationError", "CircuitBreakerError",
     "RetryableError", "RateLimitError", "AgentTimeoutError",
     "ExternalServiceError"}

(* the base class; AgentTimeoutError is exceptions.TimeoutError, which
   resilience.py imports under that name, TimeoutError the builtin *)
Base(k) ==
    CASE k \in {"TypeError", "OSError", "SubprocessError", "HireAIError"}
           -> "Exception"
      [] k \in {"ConnectionError", "TimeoutError"} -> "OSError"
      [] k = "TimeoutExpired" -> "SubprocessError"
      [] k \in {"ScrapingError", "ValidationError", "CircuitBreakerError",
                "RetryableError", "ToolError"} -> "HireAIError"
      [] k \in {"RateLimitError", "AgentTimeoutError", "ExternalServiceError"}
           -> "RetryableError"
      [] OTHER -> "Exception"

RECURSIVE IsSubclass(_, _)
IsSubclass(k, base) ==
    \/ k = base
    \/ k # "Exception" /\ IsSubclass(Base(k), base)

(* isinstance(e, classes), as an except clause tests it *)
IsInstance(e, classes) == \E base \in classes : IsSubclass(e.cls, base)

None == [cls |-> "None", id |-> 0]

(* what `raise None` raises *)
RaiseNone == [cls |-> "TypeError", id |-> 0]

(***************************************************************************)
(* retry_with_backoff.  The wrapped operation returns, or raises an        *)
(* exception of some class, at each invocation as it pleases.              *)
(***************************************************************************)
(* variant: every HireAIError is retried by default *)
DefaultRetryableWide == {"HireAIError", "ConnectionError"}

(* RetryConfig.retryable_exceptions, the default *)
DefaultRetryable == {"RetryableError", "ExternalServiceError", "ConnectionError"}

(* resilient_external_service()['retry_config'].retryable_exceptions *)
ExternalServiceRetryable == {"ExternalServiceError", "ConnectionError", "TimeoutError"}

(* resilient_agent_operation()['retry_config'].retryable_exceptions *)
AgentOperationRetryable == {"RetryableError"}

(* the retryable_exceptions of JobScraperTool.scrape_jobs *)
ScrapeJobsRetryable == {"ScrapingError", "TimeoutExpired"}

RetryConfig ==
    [max_attempts : 0..MaxAttempts,
     retryable_exceptions : {DefaultRetryable, ExternalServiceRetryable,
                             AgentOperationRetryable, ScrapeJobsRetryable}]

(* what the wrapped operation may raise *)
Raisable == Classes \ {"TypeError", "OSError", "SubprocessError"}

(* invoked: the invocations of the operation; fails: the exceptions they
   raised, in order; slept: the waits; out, exc, result: how the wrapper was
   left (result: the invocation whose value it returned) *)
NoRetryHistory ==
    [invoked |-> 0, fails |-> <<>>, slept |-> 0, waits |-> <<>>,
     out |-> "none", exc |-> None, result |-> 0]

(* the delays a RetryConfig may ask for, in seconds; the defaults of the
   dataclass *)
RetryDelays ==
    [base_delay : 0..MaxBaseDelay, max_delay : 0..MaxMaxDelay,
     exponential_base : 1..MaxExponentialBase, jitter : BOOLEAN]

DefaultDelays ==
    [base_delay |-> 1, max_delay |-> 60, exponential_base |-> 2,
     jitter |-> TRUE]

RetryStart ==
    /\ rt = [pc |-> "idle", attempt |-> 0, last_exception |-> None]
    /\ rthist = NoRetryHistory

RetryInit ==
    /\ rcfg \in RetryConfig
    /\ rdelay = DefaultDelays
    /\ rwrapper \in {"sync", "async"}
    /\ RetryStart

(* a retry wrapper nobody calls *)
RetryIdle ==
    /\ rcfg = [max_attempts |-> 3, retryable_exceptions |-> DefaultRetryable]
    /\ rdelay = DefaultDelays
    /\ rwrapper = "sync"
    /\ RetryStart

(* variant: the wrapper gives up one attempt early *)
LastAttemptEarly(a) == a >= rcfg.max_attempts - 2

(* if attempt == config.max_attempts - 1: *)
LastAttempt(a) == a = rcfg.max_attempts - 1

(* variant: every exception is retried *)
IsRetryableAlways(e) == TRUE

(* except config.retryable_exceptions as e: *)
IsRetryable(e) == IsInstance(e, rcfg.retryable_exceptions)

(* variant: the failure is raised again inside another error *)
ReraiseWrapped(e) == [cls |-> "HireAIError", id |-> 0]

(* the bare `raise` of an except clause: the exception being handled *)
Reraise(e) == e

(* for attempt in range(config.max_attempts): the iteration with attempt = a,
   or, past the last one, `raise last_exception` *)
LoopNext(a, h) ==
    IF a < rcfg.max_attempts
      THEN /\ rt' = [rt EXCEPT !.pc = "try", !.attempt = a]
           /\ rthist' = h
      ELSE /\ rt' = [rt EXCEPT !.pc = "idle", !.attempt = a]
           /\ rthist' = [h EXCEPT !.out = "raised",
                           !.exc = IF rt.last_exception = None
                                     THEN RaiseNone
                                     ELSE rt.last_exception]

(* the wrapper is called: last_exception = None, and the loop starts *)
RetryCall ==
    /\ rt.pc = "idle"
    /\ LET fresh == [rt EXCEPT !.last_exception = None]
       IN  IF 0 < rcfg.max_attempts
             THEN /\ rt' = [fresh EXCEPT !.pc = "try", !.attempt = 0]
                  /\ rthist' = NoRetryHistory
             ELSE /\ rt' = [fresh EXCEPT !.pc = "idle", !.attempt = 0]
                  /\ rthist' = [NoRetryHistory EXCEPT !.out = "raised",
                                                      !.exc = RaiseNone]
    /\ UNCHANGED <<rcfg, rdelay, rwrapper, notRetry>>

(* return func(...) / return await func(...): the operation returns *)
RetryReturn ==
    /\ rt.pc = "try"
    /\ rt' = [rt EXCEPT !.pc = "idle"]
    /\ rthist' = [rthist EXCEPT !.invoked = @ + 1, !.out = "returned",
                                !.result = rthist.invoked + 1]
    /\ UNCHANGED <<rcfg, rdelay, rwrapper, notRetry>>

(* the operation raises an exception of class k: the except clauses *)
RetryExcept(k) ==
    /\ rt.pc = "try"
    /\ LET e == [cls |-> k, id |-> rthist.invoked + 1]
           h == [rthist EXCEPT !.invoked = @ + 1, !.fails = Append(@, e)]
       IN  IF IsRetryable(e)
             THEN IF LastAttempt(rt.attempt)
                    THEN /\ rt' = [rt EXCEPT !.pc = "idle",
                                             !.last_exception = e]
                         /\ rthist' = [h EXCEPT !.out = "raised",
                                                !.exc = Reraise(e)]
                    ELSE /\ rt' = [rt EXCEPT !.pc = "sleep",
                                             !.last_exception = e]
                         /\ rthist' = h
             ELSE /\ rt' = [rt EXCEPT !.pc = "idle"]
                  /\ rthist' = [h EXCEPT !.out = "raised", !.exc = Reraise(e)]
    /\ UNCHANGED <<rcfg, rdelay, rwrapper, notRetry>>

(* waits are kept in tenths of a second, the grain of the jitter *)
Tenths == 10

RECURSIVE Power(_, _)
Power(b, k) == IF k = 0 THEN 1 ELSE b * Power(b, k - 1)

(* variant: the delay is not held at max_delay *)
CappedNever(attempt) ==
    rdelay.base_delay * Power(rdelay.exponential_base, attempt)

(* _calculate_delay: delay = min(base_delay * exponential_base ** attempt,
   max_delay), in seconds *)
Capped(attempt) ==
    Min(rdelay.base_delay * Power(rdelay.exponential_base, attempt),
        rdelay.max_delay)

(* what random.uniform(0, delay * 0.1) may return, in tenths of a second;
   without jitter nothing is drawn *)
Uniform(attempt) == IF rdelay.jitter THEN 0..Capped(attempt) ELSE {0}

(* _calculate_delay(attempt, config) with the draw u, in tenths of a second *)
CalculateDelay(attempt, u) == Capped(attempt) * Tenths + u

(* delay = _calculate_delay(attempt, config), time.sleep(delay) / await
   asyncio.sleep(delay), then the next iteration *)
RetrySleep ==
    /\ rt.pc = "sleep"
    /\ \E u \in Uniform(rt.attempt) :
          LoopNext(rt.attempt + 1,
                   [rthist EXCEPT !.slept = @ + 1,
                       !.waits = Append(@, CalculateDelay(rt.attempt, u))])
    /\ UNCHANGED <<rcfg, rdelay, rwrapper, notRetry>>

(***************************************************************************)
(* timeout(seconds).  The wrapped operation runs while the clock advances  *)
(* and returns or raises when it pleases.  The synchronous wrapper         *)
(* measures the time the operation took; the asynchronous one awaits it    *)
(* under asyncio.wait_for, which raises asyncio.TimeoutError once          *)
(* timeout_seconds have passed.                                            *)
(***************************************************************************)
TimeoutConfig ==
    [timeout_seconds : 1..MaxTimeout, wrapper : {"sync", "async"}]

NoTimeoutHistory ==
    [out |-> "none", elapsed |-> 0, warned |-> FALSE, timeout_duration |-> -1]

TimeoutStart ==
    /\ to = [pc |-> "idle", start_time |-> 0]
    /\ tohist = NoTimeoutHistory

TimeoutInit ==
    /\ tocfg \in TimeoutConfig
    /\ TimeoutStart

(* a timeout wrapper nobody calls *)
TimeoutIdle ==
    /\ tocfg = [timeout_seconds |-> 1, wrapper |-> "sync"]
    /\ TimeoutStart

(* elapsed > timeout_seconds *)
Exceeds(elapsed) == elapsed > tocfg.timeout_seconds

(* the wrapper is called and calls the operation *)
TimeoutCall ==
    /\ to.pc = "idle"
    /\ to' = [pc |-> "running", start_time |-> now]
    /\ tohist' = NoTimeoutHistory
    /\ UNCHANGED <<tocfg, notTimeout>>

(* _sync_timeout_wrapper: the operation returns after whatever time it took;
   a warning is logged when that exceeds the limit, and the result is
   returned *)
SyncTimeoutReturn ==
    /\ tocfg.wrapper = "sync"
    /\ to.pc = "running"
    /\ to' = [to EXCEPT !.pc = "idle"]
    /\ tohist' = [tohist EXCEPT !.out = "returned",
                                !.elapsed = now - to.start_time,
                                !.warned = Exceeds(now - to.start_time)]
    /\ UNCHANGED <<tocfg, notTimeout>>

(* _async_timeout_wrapper: the operation returns before wait_for gives up *)
AsyncTimeoutReturn ==
    /\ tocfg.wrapper = "async"
    /\ to.pc = "running"
    /\ ~Exceeds(now - to.start_time)
    /\ to' = [to EXCEPT !.pc = "idle"]
    /\ tohist' = [tohist EXCEPT !.out = "returned",
                                !.elapsed = now - to.start_time]
    /\ UNCHANGED <<tocfg, notTimeout>>

(* _async_timeout_wrapper: wait_for cancels the operation and raises
   asyncio.TimeoutError; the wrapper raises AgentTimeoutError *)
AsyncTimeoutExpire ==
    /\ tocfg.wrapper = "async"
    /\ to.pc = "running"
    /\ now - to.start_time >= tocfg.timeout_seconds
    /\ to' = [to EXCEPT !.pc = "idle"]
    /\ tohist' = [tohist EXCEPT !.out = "AgentTimeoutError",
                                !.elapsed = now - to.start_time,
                                !.timeout_duration =
                                    IntSeconds(tocfg.timeout_seconds)]
    /\ UNCHANGED <<tocfg, notTimeout>>

(* the operation raises: neither wrapper catches it *)
TimeoutOpRaises ==
    /\ to.pc = "running"
    /\ tocfg.wrapper = "async" => ~Exceeds(now - to.start_time)
    /\ to' = [to EXCEPT !.pc = "idle"]
    /\ tohist' = [tohist EXCEPT !.out = "raised",
                                !.elapsed = now - to.start_time]
    /\ UNCHANGED <<tocfg, notTimeout>>

(***************************************************************************)
(* ServiceContainer (dependency_injection.py).  Service types are names.   *)
(* An implementation is a class, whose constructor takes no parameter or   *)
(* one parameter annotated with a service type, or an object built by the  *)
(* caller.  A factory builds an object at each call, or raises.  Objects   *)
(* built through the container are numbered 1, 2, ... in the order of      *)
(* their construction; GivenObject is the object built by the caller.      *)
(* register, get_required_service, clear_singletons and clear_scoped run   *)
(* under the container's lock: each is one action.                         *)
(***************************************************************************)
ServiceTypes == {"DatabaseService", "UserService"}

(* ServiceLifetime *)
SINGLETON == "singleton"
TRANSIENT == "transient"
SCOPED == "scoped"
ServiceLifetime == {SINGLETON, TRANSIENT, SCOPED}

(* what register takes as the implementation: an object, or a class whose
   constructor has no parameter besides self ("nothing") or one parameter,
   declared with a service type or without a type hint ("untyped"), with or
   without a default value *)
Implementation ==
    {[kind |-> "class", needs |-> "nothing", default |-> FALSE]}
    \cup [kind : {"class"}, needs : ServiceTypes \cup {"untyped"},
          default : BOOLEAN]
    \cup {[kind |-> "object", needs |-> "nothing", default |-> FALSE]}

NoImplementation == [kind |-> "none", needs |-> "nothing", default |-> FALSE]

Factories == {"builds", "raises"}

(* a factory that asks the container it is handed for what it needs:
   lambda c: UserService(c.get_required_service(DatabaseService)) *)
Requires == "requires"
Required == "DatabaseService"

(* ServiceDescriptor of register and of register_factory *)
ServiceDescriptor ==
    [lifetime : ServiceLifetime, implementation : Implementation,
     factory : {"none"}]
    \cup [lifetime : ServiceLifetime, implementation : {NoImplementation},
          factory : Factories]

NotRegistered ==
    [lifetime |-> "none", implementation |-> NoImplementation,
     factory |-> "none"]

NoInstance == 0
GivenObject == -1
DefaultValue == -2

Empty == [t \in ServiceTypes |-> NoInstance]

(* ServiceContainer.__init__; next: the objects built so far *)
NewContainer ==
    [services |-> [t \in ServiceTypes |-> NotRegistered],
     singletons |-> Empty,
     scoped_instances |-> Empty,
     scopes |-> <<>>,
     next |-> 0]

(* first: what the first resolution of a type registered SINGLETON returned,
   since the singletons were last cleared; built: how often an instance was
   made for it since; returned: the objects resolutions have returned;
   singletonSame: every resolution of a type registered SINGLETON returned
   its `first`; transientFresh: every resolution of a type registered
   TRANSIENT with a class or a factory returned an object no resolution had
   returned before, and left the caches' entries of the type alone;
   registrations: the calls of register and register_factory (the workload
   is MaxRegistrations of them); scope: the create_scope block the caller is
   in (they are numbered as they are entered, 0 is outside all of them);
   active: the blocks around that one; entered: the blocks entered so far;
   got: what the resolutions of a type registered SCOPED returned since
   clear_scoped was last called in their block, as (block, type, object). *)
NoResolutions ==
    [first |-> Empty,
     built |-> [t \in ServiceTypes |-> 0],
     returned |-> {},
     singletonSame |-> TRUE,
     transientFresh |-> TRUE,
     registrations |-> 0,
     scope |-> 0,
     active |-> <<>>,
     entered |-> 0,
     got |-> {}]

(* the last call on the container: what it returned (val) or raised (err),
   the parameter its error message names (about), and the argument the
   constructor of the returned instance was called with (arg) *)
DICall(op, t, err, val, arg, about) ==
    [op |-> op, type |-> t, err |-> err, val |-> val, arg |-> arg,
     about |-> about]

DIDone(op, t) == DICall(op, t, "none", NoInstance, NoInstance, "none")

NoCall_DI == DIDone("none", "none")

(* a thread's call: the operation, its service_type, and the descriptor it
   made (register) or read (get_required_service) *)
NoDICall == [op |-> "none", type |-> "none", desc |-> NotRegistered]

(* no thread is in the container *)
DIThreadsIdle ==
    /\ dilock = 0
    /\ dipc = [c \in Callers |-> "idle"]
    /\ diloc = [c \in Callers |-> NoDICall]

DIStart ==
    /\ di = NewContainer
    /\ dih = NoResolutions
    /\ dires = NoCall_DI
    /\ DIThreadsIdle

Ok(c, h, v) ==
    [c |-> c, h |-> h, err |-> "none", val |-> v, arg |-> NoInstance,
     about |-> "none"]

(* the message of Python's RecursionError *)
RecursionLimit == "maximum recursion depth exceeded"

(* an exception of class e whose message names the parameter `about` *)
RaiseAbout(c, h, e, about) ==
    [c |-> c, h |-> h, err |-> e, val |-> NoInstance, arg |-> NoInstance,
     about |-> about]

Raise(c, h, e) == RaiseAbout(c, h, e, "none")

(* variant: the cache is never consulted *)
CachedNever(cache, t) == FALSE

(* service_type in self._singletons / self._scoped_instances *)
Cached(cache, t) == cache[t] # NoInstance

(* variant: TRANSIENT registrations are handled as SINGLETON ones *)
IsSingletonOrTransient(desc) == desc.lifetime \in {SINGLETON, TRANSIENT}

(* descriptor.lifetime == ServiceLifetime.SINGLETON *)
IsSingleton(desc) == desc.lifetime = SINGLETON

(* implementation_type(...): a new object *)
Construct(c, h) == Ok([c EXCEPT !.next = @ + 1], h, c.next + 1)

(* implementation_type called with kwargs: a new object, made with the
   argument *)
ConstructWith(c, h, arg) == [Construct(c, h) EXCEPT !.arg = arg]

(* variant: no parameter has a default value *)
HasDefaultNever(impl) == FALSE

(* param.default is not inspect.Parameter.empty *)
HasDefault(impl) == impl.default

(* the history after a resolution of t (registered with desc) in state
   (c0, h0) gave r, which made an instance or not *)
Observe(c0, h0, t, desc, r, made) ==
    IF r.err # "none" THEN r
    ELSE LET h1 == [r.h EXCEPT !.returned = @ \cup {r.val}]
             h2 == IF desc.lifetime = SINGLETON
                     THEN [h1 EXCEPT
                             !.first[t] = IF @ = NoInstance THEN r.val ELSE @,
                             !.built[t] = IF made THEN @ + 1 ELSE @,
                             !.singletonSame =
                                 @ /\ (r.h.first[t] \in {NoInstance, r.val})]
                     ELSE h1
             h3 == IF desc.lifetime = TRANSIENT
                      /\ (desc.factory # "none"
                          \/ desc.implementation.kind = "class")
                     THEN [h2 EXCEPT
                             !.transientFresh =
                                 /\ @
                                 /\ r.val \notin h0.returned
                                 /\ r.c.singletons[t] = c0.singletons[t]
                                 /\ r.c.scoped_instances[t] =
                                        c0.scoped_instances[t]]
                     ELSE h2
             h4 == IF desc.lifetime = SCOPED
                     THEN [h3 EXCEPT !.got = @ \cup {<<h0.scope, t, r.val>>}]
                     ELSE h3
         IN  [r EXCEPT !.h = h4]

RECURSIVE GetRequiredService(_, _, _, _)
RECURSIVE CreateInstance(_, _, _, _)
RECURSIVE CreateWithInjection(_, _, _, _)

(* variant: get_service lets the KeyError through *)
GetServiceNoCatch(c, h, t, depth) == GetRequiredService(c, h, t, depth)

(* get_service: get_required_service, with KeyError turned into None *)
GetService(c, h, t, depth) ==
    LET r == GetRequiredService(c, h, t, depth)
    IN  IF r.err = "KeyError" THEN Ok(r.c, r.h, NoInstance) ELSE r

(* _create_with_injection of a class with the constructor of impl; every
   exception is raised again as a RuntimeError whose message ends with the
   message of the exception, so that it names the parameter that one names *)
CreateWithInjection(c, h, impl, depth) ==
    IF impl.needs = "nothing" THEN Construct(c, h)
    ELSE IF impl.needs \in ServiceTypes
      THEN LET dependency == GetService(c, h, impl.needs, depth + 1)
           IN  IF dependency.err # "none"
                 THEN RaiseAbout(dependency.c, dependency.h, "RuntimeError",
                                 dependency.about)
               ELSE IF dependency.val # NoInstance
                 THEN ConstructWith(dependency.c, dependency.h, dependency.val)
               ELSE IF HasDefault(impl)
                 THEN ConstructWith(dependency.c, dependency.h, DefaultValue)
               ELSE RaiseAbout(dependency.c, dependency.h, "RuntimeError",
                               impl.needs)
    ELSE IF HasDefault(impl) THEN ConstructWith(c, h, DefaultValue)
    ELSE RaiseAbout(c, h, "RuntimeError", impl.needs)

(* _create_instance *)
CreateInstance(c, h, desc, depth) ==
    IF desc.factory # "none"
      THEN IF desc.factory = "builds" THEN Construct(c, h)
           ELSE IF desc.factory = Requires
             THEN LET needed == GetRequiredService(c, h, Required, depth + 1)
                  IN  IF needed.err # "none" THEN needed
                      ELSE ConstructWith(needed.c, needed.h, needed.val)
           ELSE Raise(c, h, "FactoryError")
    ELSE IF desc.implementation.kind # "class"
      THEN Ok(c, h, GivenObject)
    ELSE CreateWithInjection(c, h, desc.implementation, depth)

(* get_required_service; a recursion deeper than MaxDepth ends as Python's
   does, with a RecursionError *)
GetRequiredService(c, h, t, depth) ==
    IF depth > MaxDepth THEN RaiseAbout(c, h, "RecursionError", RecursionLimit)
    ELSE IF c.services[t] = NotRegistered THEN Raise(c, h, "KeyError")
    ELSE
      LET desc == c.services[t]
      IN  IF IsSingleton(desc)
            THEN IF ~Cached(c.singletons, t)
                   THEN LET r == CreateInstance(c, h, desc, depth)
                        IN  Observe(c, h, t, desc,
                              IF r.err # "none" THEN r
                              ELSE [r EXCEPT !.c.singletons[t] = r.val],
                              TRUE)
                   ELSE Observe(c, h, t, desc,
                                Ok(c, h, c.singletons[t]), FALSE)
          ELSE IF desc.lifetime = SCOPED
            THEN IF ~Cached(c.scoped_instances, t)
                   THEN LET r == CreateInstance(c, h, desc, depth)
                        IN  Observe(c, h, t, desc,
                              IF r.err # "none" THEN r
                              ELSE [r EXCEPT !.c.scoped_instances[t] = r.val],
                              TRUE)
                   ELSE Observe(c, h, t, desc,
                                Ok(c, h, c.scoped_instances[t]), FALSE)
          ELSE Observe(c, h, t, desc, CreateInstance(c, h, desc, depth), TRUE)

(* register(service_type, implementation, lifetime) *)
Register(t, impl, lifetime) ==
    /\ dih.registrations < MaxRegistrations
    /\ dih' = [dih EXCEPT !.registrations = @ + 1]
    /\ di' = [di EXCEPT !.services[t] =
                 [lifetime |-> lifetime, implementation |-> impl,
                  factory |-> "none"]]
    /\ dires' = DIDone("register", t)
    /\ UNCHANGED notDI

(* register_factory(service_type, factory, lifetime) *)
RegisterFactory(t, f, lifetime) ==
    /\ dih.registrations < MaxRegistrations
    /\ dih' = [dih EXCEPT !.registrations = @ + 1]
    /\ di' = [di EXCEPT !.services[t] =
                 [lifetime |-> lifetime, implementation |-> NoImplementation,
                  factory |-> f]]
    /\ dires' = DIDone("register_factory", t)
    /\ UNCHANGED notDI

(* a call of get_required_service(t) from outside the container *)
Resolve(t) ==
    LET r == GetRequiredService(di, dih, t, 1)
    IN  /\ r.c.next <= MaxInstances
        /\ di' = r.c
        /\ dih' = r.h
        /\ dires' = DICall("get_required_service", t, r.err, r.val, r.arg, r.about)
        /\ UNCHANGED notDI

(* a call of get_service(t) from outside the container *)
ResolveOptional(t) ==
    LET r == GetService(di, dih, t, 1)
    IN  /\ r.c.next <= MaxInstances
        /\ di' = r.c
        /\ dih' = r.h
        /\ dires' = DICall("get_service", t, r.err, r.val, r.arg, r.about)
        /\ UNCHANGED notDI

(* clear_singletons *)
ClearSingletons ==
    /\ di' = [di EXCEPT !.singletons = Empty]
    /\ dih' = [dih EXCEPT !.first = Empty,
                          !.built = [t \in ServiceTypes |-> 0]]
    /\ dires' = DIDone("clear_singletons", "none")
    /\ UNCHANGED notDI

(* clear_scoped *)
ClearScoped ==
    /\ di' = [di EXCEPT !.scoped_instances = Empty]
    /\ dih' = [dih EXCEPT !.got = {x \in @ : x[1] # dih.scope}]
    /\ dires' = DIDone("clear_scoped", "none")
    /\ UNCHANGED notDI

(* variant: create_scope leaves the scoped instances in place *)
ScopeStartKeep(c) == c.scoped_instances

(* self._scoped_instances after create_scope's clear() *)
ScopeStart(c) == Empty

(* `with container.create_scope():` up to the yield: the scoped instances
   are put aside in old_scoped and the scope starts without any *)
EnterScope ==
    /\ dih.entered < MaxScopes
    /\ di' = [di EXCEPT !.scopes = Append(@, di.scoped_instances),
                        !.scoped_instances = ScopeStart(di)]
    /\ dih' = [dih EXCEPT !.entered = @ + 1,
                          !.scope = dih.entered + 1,
                          !.active = Append(@, dih.scope)]
    /\ dires' = DIDone("create_scope", "none")
    /\ UNCHANGED notDI

(* variant: create_scope without its finally clause *)
ScopeEndKeep(c) == c.scoped_instances

(* self._scoped_instances = old_scoped, of the innermost block *)
ScopeEnd(c) == c.scopes[Len(c.scopes)]

(* the end of the innermost `with` block, left normally or by an exception:
   the finally clause puts old_scoped back *)
ExitScope ==
    /\ di.scopes # <<>>
    /\ di' = [di EXCEPT !.scoped_instances = ScopeEnd(di),
                        !.scopes = SubSeq(@, 1, Len(@) - 1)]
    /\ dih' = [dih EXCEPT !.scope = dih.active[Len(dih.active)],
                          !.active = SubSeq(@, 1, Len(@) - 1)]
    /\ dires' = DIDone("exit_scope", "none")
    /\ UNCHANGED notDI

(***************************************************************************)
(* Threads on one container, statement by statement.  register,            *)
(* register_factory and get_required_service each run inside               *)
(* `with self._lock:`; the lock is an RLock, which the thread that holds   *)
(* it can take again (the nested resolutions do).                          *)
(***************************************************************************)
DIGoto(c, label) == dipc' = [dipc EXCEPT ![c] = label]

(* variant: the lock never keeps a thread out *)
LockFreeAlways(c) == TRUE

(* self._lock can be acquired by thread c *)
LockFree(c) == dilock \in {0, c}

(* thread c calls register or register_factory: the descriptor is made from
   the arguments once the lock is held *)
RegisterCall(c, t, desc) ==
    /\ dipc[c] = "idle"
    /\ dih.registrations < MaxRegistrations
    /\ dih' = [dih EXCEPT !.registrations = @ + 1]
    /\ diloc' = [diloc EXCEPT ![c] =
                    [op |-> "register", type |-> t, desc |-> desc]]
    /\ DIGoto(c, "acquire")
    /\ UNCHANGED <<di, dilock, notDIThreads>>

(* thread c calls get_required_service(t) *)
ResolveCall(c, t) ==
    /\ dipc[c] = "idle"
    /\ diloc' = [diloc EXCEPT ![c] =
                    [op |-> "get_required_service", type |-> t,
                     desc |-> NotRegistered]]
    /\ DIGoto(c, "acquire")
    /\ UNCHANGED <<di, dih, dilock, notDIThreads>>

(* with self._lock: *)
AcquireLock(c) ==
    /\ dipc[c] = "acquire"
    /\ LockFree(c)
    /\ dilock' = c
    /\ DIGoto(c, IF diloc[c].op = "register" THEN "write" ELSE "check")
    /\ UNCHANGED <<di, dih, diloc, notDIThreads>>

(* self._services[service_type] = descriptor, and the end of the with
   block *)
RegisterWrite(c) ==
    /\ dipc[c] = "write"
    /\ di' = [di EXCEPT !.services[diloc[c].type] = diloc[c].desc]
    /\ dilock' = 0
    /\ diloc' = [diloc EXCEPT ![c] = NoDICall]
    /\ DIGoto(c, "idle")
    /\ UNCHANGED <<dih, notDIThreads>>

(* if service_type not in self._services: raise KeyError (which ends the
   with block) *)
ResolveCheck(c) ==
    /\ dipc[c] = "check"
    /\ IF di.services[diloc[c].type] = NotRegistered
         THEN /\ dilock' = 0
              /\ diloc' = [diloc EXCEPT ![c] = NoDICall]
              /\ DIGoto(c, "idle")
         ELSE /\ DIGoto(c, "read")
              /\ UNCHANGED <<dilock, diloc>>
    /\ UNCHANGED <<di, dih, notDIThreads>>

(* descriptor = self._services[service_type] *)
ResolveRead(c) ==
    /\ dipc[c] = "read"
    /\ diloc' = [diloc EXCEPT ![c].desc = di.services[diloc[c].type]]
    /\ DIGoto(c, "build")
    /\ UNCHANGED <<di, dih, dilock, notDIThreads>>

(* the rest of get_required_service, with the descriptor that was read, and
   the end of the with block *)
ResolveBuild(c) ==
    LET t == diloc[c].type
        r == GetRequiredService(
                 [di EXCEPT !.services[t] = diloc[c].desc], dih, t, 1)
    IN  /\ dipc[c] = "build"
        /\ r.c.next <= MaxInstances
        /\ di' = [r.c EXCEPT !.services = di.services]
        /\ dih' = r.h
        /\ dilock' = 0
        /\ diloc' = [diloc EXCEPT ![c] = NoDICall]
        /\ DIGoto(c, "idle")
        /\ UNCHANGED notDIThreads

(***************************************************************************)
(* HybridSearchTool.search_jobs_intelligently: one search.  The database   *)
(* tool and the scraper are the environment: the rows and records they     *)
(* return are drawn from DbRows and ScrapedRecords.  A string is the       *)
(* sequence of its characters; scores are counted in halves (3.0 is 6).    *)
(* Of the result, the performance figures and the echo of the request are  *)
(* left out; of the insights, the companies, locations, score analysis and *)
(* recommendation.                                                         *)
(***************************************************************************)
(* None in the place of a string: a NULL column of the row *)
NoneValue == <<"None">>

(* the characters str.lower changes, among those of the strings below *)
LowerChar(ch) ==
    CASE ch = "A" -> "a"
      [] ch = "G" -> "g"
      [] ch = "P" -> "p"
      [] ch = "Y" -> "y"
      [] OTHER -> ch

(* str.lower *)
Lower(s) == [i \in DOMAIN s |-> LowerChar(s[i])]

(* str.strip, of blanks *)
RECURSIVE Strip(_)
Strip(s) ==
    IF s = <<>> THEN s
    ELSE IF Head(s) = " " THEN Strip(Tail(s))
    ELSE IF s[Len(s)] = " " THEN Strip(SubSeq(s, 1, Len(s) - 1))
    ELSE s

(* sub in s *)
Contains(s, sub) ==
    \E i \in 0..(Len(s) - Len(sub)) : SubSeq(s, i + 1, i + Len(sub)) = sub

(* a job as the tools deliver it; source_type and, for a scraped record,
   relevance_score are set by _combine_and_rank_jobs *)
Job(id, title, company, location, description, days_old, score) ==
    [id |-> id, title |-> title, company |-> company, location |-> location,
     description |-> description, days_old |-> days_old,
     relevance_score |-> score, source_type |-> "unknown"]

(* no created_at *)
NoDate == -1

(* rows of the jobs table: two that differ in case and blanks only, one with
   the score of the first, one without a location *)
DbRows ==
    {Job(1, <<"P", "y">>, <<"A", "c">>, <<"P", "u">>, <<>>, NoDate, 6),
     Job(2, <<" ", "p", "y">>, <<"a", "c">>, <<"p", "u", " ">>, <<>>, NoDate, 2),
     Job(3, <<"G", "o">>, <<"A", "c">>, <<"P", "u">>, <<>>, NoDate, 6),
     Job(4, <<"G", "o">>, <<"A", "c">>, NoneValue, <<>>, NoDate, 0)}

(* records of the scraper: one with the key of rows 1 and 2, two with keys
   of their own *)
ScrapedRecords ==
    {Job(5, <<"P", "Y">>, <<"A", "c">>, <<"P", "u">>, <<>>, 3, 0),
     Job(6, <<"p", "y", "2">>, <<"A", "c">>, <<"P", "u">>, <<>>, NoDate, 0),
     Job(7, <<"q", "a">>, <<"A", "c">>, <<"P", "u">>, <<"p", "y">>, 20, 0)}

(* the lists of at most n different members of S *)
RECURSIVE Lists(_, _)
Lists(S, n) ==
    IF n = 0 THEN {<<>>}
    ELSE LET shorter == Lists(S, n - 1)
         IN  shorter \cup
             {Append(l, x) : l \in {k \in shorter : Len(k) = n - 1},
                             x \in S}

Distinct(l) == \A i, j \in DOMAIN l : l[i] = l[j] => i = j

(* HybridSearchRequest; the keywords are ["Py"] *)
Keywords == << <<"P", "y">> >>

HybridSearchRequest ==
    [include_scraping : BOOLEAN,
     scrape_threshold : 0..MaxScrapeThreshold,
     max_results : 0..MaxResults]

(* variant: the key keeps the case and the blanks *)
NormalKeep(s) == s

(* .lower().strip() *)
Normal(s) == Strip(Lower(s))

(* _generate_job_key raises AttributeError: a field is None *)
KeyRaises(job) == NoneValue \in {job.title, job.company, job.location}

(* _generate_job_key *)
GenerateJobKey(job) ==
    Normal(job.title) \o <<"|">> \o Normal(job.company) \o <<"|">>
        \o Normal(job.location)

(* the keyword matches of _calculate_relevance *)
RECURSIVE KeywordScore(_, _)
KeywordScore(job, keywords) ==
    IF keywords = <<>> THEN 0
    ELSE LET keyword_lower == Lower(Head(keywords))
         IN  (IF Contains(Lower(job.title), keyword_lower) THEN 6 ELSE 0)
             + (IF Contains(Lower(job.description), keyword_lower)
                  THEN 3 ELSE 0)
             + (IF Contains(Lower(job.company), keyword_lower) THEN 2 ELSE 0)
             + KeywordScore(job, Tail(keywords))

(* _calculate_relevance *)
CalculateRelevance(job, keywords) ==
    KeywordScore(job, keywords)
    + (IF job.days_old = NoDate THEN 0
       ELSE IF job.days_old <= 7 THEN 2
       ELSE IF job.days_old <= 30 THEN 1
       ELSE 0)

(* the loops of _combine_and_rank_jobs: the jobs whose key was not seen are
   appended, with their source_type *)
RECURSIVE AddJobs(_, _, _, _)
AddJobs(acc, jobs, source_type, keywords) ==
    IF jobs = <<>> THEN acc
    ELSE LET job == Head(jobs)
             job_key == GenerateJobKey(job)
             marked == IF source_type = "database"
                         THEN [job EXCEPT !.source_type = source_type]
                         ELSE [job EXCEPT
                                 !.source_type = source_type,
                                 !.relevance_score =
                                     CalculateRelevance(job, keywords)]
         IN  AddJobs(IF job_key \notin acc.seen_jobs
                       THEN [combined |-> Append(acc.combined, marked),
                             seen_jobs |-> acc.seen_jobs \cup {job_key}]
                       ELSE acc,
                     Tail(jobs), source_type, keywords)

(* variant: a job goes before those of its score *)
RECURSIVE InsertBefore(_, _)
InsertBefore(sorted, job) ==
    IF sorted = <<>> THEN <<job>>
    ELSE IF Head(sorted).relevance_score > job.relevance_score
      THEN <<Head(sorted)>> \o InsertBefore(Tail(sorted), job)
    ELSE <<job>> \o sorted

(* list.sort(key=relevance_score, reverse=True) is stable: a job goes after
   those of its score that were in the list before it *)
RECURSIVE Insert(_, _)
Insert(sorted, job) ==
    IF sorted = <<>> THEN <<job>>
    ELSE IF Head(sorted).relevance_score >= job.relevance_score
      THEN <<Head(sorted)>> \o Insert(Tail(sorted), job)
    ELSE <<job>> \o sorted

RECURSIVE Sort(_, _)
Sort(sorted, jobs) ==
    IF jobs = <<>> THEN sorted
    ELSE Sort(Insert(sorted, Head(jobs)), Tail(jobs))

(* _combine_and_rank_jobs, when no key raises *)
CombineAndRankJobs(db_jobs, scraping_jobs, keywords) ==
    LET db == AddJobs([combined |-> <<>>, seen_jobs |-> {}], db_jobs,
                      "database", keywords)
        all == AddJobs(db, scraping_jobs, "live_scraping", keywords)
    IN  Sort(<<>>, all.combined)

(* source_distribution of _generate_hybrid_insights *)
SourceDistribution(combined_jobs) ==
    LET types == {combined_jobs[i].source_type : i \in DOMAIN combined_jobs}
    IN  [s \in types |->
            Cardinality({i \in DOMAIN combined_jobs :
                            combined_jobs[i].source_type = s})]

(* _generate_hybrid_insights *)
GenerateHybridInsights(db_jobs, scraping_jobs, combined_jobs, triggered) ==
    LET insights == [total_results |-> Len(combined_jobs),
                     database_results |-> Len(db_jobs),
                     live_scraping_results |-> Len(scraping_jobs),
                     scraping_triggered |-> triggered]
    IN  IF combined_jobs = <<>>
          THEN insights @@ [message |-> "No jobs found"]
          ELSE insights
               @@ [source_distribution |-> SourceDistribution(combined_jobs)]

(* scraping_error = None *)
NoError == "None"

(* variant: the failure result tells no error *)
SearchFailedSilent(error) ==
    [success |-> FALSE, error |-> NoError, jobs |-> <<>>, total_found |-> 0]

(* the except clause of search_jobs_intelligently *)
SearchFailed(error) ==
    [success |-> FALSE, error |-> error, jobs |-> <<>>, total_found |-> 0]

(* combined_jobs[:request.max_results], if the list is longer *)
Limit(combined_jobs, max_results) ==
    IF Len(combined_jobs) > max_results
      THEN SubSeq(combined_jobs, 1, max_results)
      ELSE combined_jobs

(* steps 3 to 5 of search_jobs_intelligently, and its result *)
Combine(request, db_jobs, should_scrape, scraping_jobs, scraping_error) ==
    IF \E i \in DOMAIN (db_jobs \o scraping_jobs) :
          KeyRaises((db_jobs \o scraping_jobs)[i])
      THEN SearchFailed("AttributeError")
    ELSE LET combined_jobs ==
                 Limit(CombineAndRankJobs(db_jobs, scraping_jobs, Keywords),
                       request.max_results)
         IN  [success |-> TRUE,
              jobs |-> combined_jobs,
              total_found |-> Len(combined_jobs),
              database_count |-> Len(db_jobs),
              scraping_count |-> Len(scraping_jobs),
              scraping_triggered |-> should_scrape,
              scraping_error |-> scraping_error,
              insights |-> GenerateHybridInsights(db_jobs, scraping_jobs,
                                                  combined_jobs,
                                                  should_scrape)]

(* nothing has been searched *)
NoSearch ==
    [pc |-> "idle", db_jobs |-> <<>>, should_scrape |-> FALSE,
     scraping_jobs |-> <<>>, scraping_error |-> NoError, calls |-> <<>>,
     db_success |-> TRUE]

HybridIdle ==
    /\ hsreq = [include_scraping |-> TRUE, scrape_threshold |-> 0,
                max_results |-> 0]
    /\ hs = NoSearch
    /\ hsres = SearchFailed("none")

HybridInit ==
    /\ hsreq \in HybridSearchRequest
    /\ hs = NoSearch
    /\ hsres = SearchFailed("none")

(* search_jobs_intelligently(request) up to the call of
   db_tool.intelligent_search *)
Search ==
    /\ hs.pc = "idle"
    /\ hs' = [hs EXCEPT !.pc = "database", !.calls = Append(@, "database")]
    /\ UNCHANGED <<hsreq, hsres, notHybrid>>

(* variant: scraping whenever it is included *)
ShouldScrapeAlways(request, db_count) == request.include_scraping

(* should_scrape *)
ShouldScrape(request, db_count) ==
    request.include_scraping /\ db_count < request.scrape_threshold

(* the database tool has returned db_result, of which the search reads the
   jobs and not the success flag (kept in db_success): the search goes on to
   the scraper, or to its end *)
AfterDatabase(db_jobs, success) ==
    LET should_scrape == ShouldScrape(hsreq, Len(db_jobs))
    IN  IF should_scrape
          THEN /\ hs' = [hs EXCEPT !.pc = "scraper",
                                   !.db_jobs = db_jobs,
                                   !.db_success = success,
                                   !.should_scrape = TRUE,
                                   !.calls = Append(@, "scraper")]
               /\ UNCHANGED hsres
          ELSE /\ hs' = [hs EXCEPT !.pc = "done", !.db_jobs = db_jobs,
                                   !.db_success = success]
               /\ hsres' = Combine(hsreq, db_jobs, FALSE, <<>>, NoError)

(* intelligent_search returns the rows it found, at most max_results *)
DatabaseReturns(db_jobs) ==
    /\ hs.pc = "database"
    /\ Distinct(db_jobs)
    /\ Len(db_jobs) <= hsreq.max_results
    /\ AfterDatabase(db_jobs, TRUE)
    /\ UNCHANGED <<hsreq, notHybrid>>

(* variant: the search gives up when the lookup reports a failure *)
DatabaseFailsThrough ==
    /\ hs.pc = "database"
    /\ hs' = [hs EXCEPT !.pc = "done", !.db_success = FALSE]
    /\ hsres' = SearchFailed("DatabaseError")
    /\ UNCHANGED <<hsreq, notHybrid>>

(* intelligent_search returns success False and no jobs *)
DatabaseFails ==
    /\ hs.pc = "database"
    /\ AfterDatabase(<<>>, FALSE)
    /\ UNCHANGED <<hsreq, notHybrid>>

(* the call of intelligent_search raises: DatabaseSearchTool catches every
   Exception of its own, a collaborator put in its place need not; the
   outer except clause of search_jobs_intelligently takes it *)
DatabaseRaises ==
    /\ hs.pc = "database"
    /\ hs' = [hs EXCEPT !.pc = "done"]
    /\ hsres' = SearchFailed("DatabaseError")
    /\ UNCHANGED <<hsreq, notHybrid>>

(* scrape_jobs returns success True and its records *)
ScraperReturns(scraping_jobs) ==
    /\ hs.pc = "scraper"
    /\ Distinct(scraping_jobs)
    /\ hs' = [hs EXCEPT !.pc = "done", !.scraping_jobs = scraping_jobs]
    /\ hsres' = Combine(hsreq, hs.db_jobs, hs.should_scrape, scraping_jobs,
                        NoError)
    /\ UNCHANGED <<hsreq, notHybrid>>

(* scrape_jobs returns success False and an error *)
ScraperFails ==
    /\ hs.pc = "scraper"
    /\ hs' = [hs EXCEPT !.pc = "done", !.scraping_error = "scraper error"]
    /\ hsres' = Combine(hsreq, hs.db_jobs, hs.should_scrape, <<>>,
                        "scraper error")
    /\ UNCHANGED <<hsreq, notHybrid>>

(* variant: no except clause around the call of scrape_jobs, so that what it
   raises reaches the outer one *)
ScraperRaisesThrough ==
    /\ hs.pc = "scraper"
    /\ hs' = [hs EXCEPT !.pc = "done", !.scraping_error = "ScrapingError"]
    /\ hsres' = SearchFailed("ScrapingError")
    /\ UNCHANGED <<hsreq, notHybrid>>

(* scrape_jobs raises: scraping_error = str(e) *)
ScraperRaises ==
    /\ hs.pc = "scraper"
    /\ hs' = [hs EXCEPT !.pc = "done", !.scraping_error = "ScrapingError"]
    /\ hsres' = Combine(hsreq, hs.db_jobs, hs.should_scrape, <<>>,
                        "ScrapingError")
    /\ UNCHANGED <<hsreq, notHybrid>>

(***************************************************************************)
(* JobScraperTool.scrape_jobs, the scraper the hybrid search calls, under  *)
(* retry_with_backoff (three attempts, ScrapingError and TimeoutExpired    *)
(* retried) and timeout(300), whose blocking wrapper hands every result    *)
(* and every exception through.  Each attempt runs the scraper process.    *)
(***************************************************************************)
ScrapeJobsAttempts == 3

ReturnCodes == (-MaxReturnCode)..MaxReturnCode

(* what subprocess.run and, after an exit with 0, _get_latest_export do *)
ProcessOutcomes ==
    [kind : {"exit"}, returncode : ReturnCodes \ {0}, stderr : BOOLEAN,
     exported : {FALSE}]
    \cup [kind : {"exit"}, returncode : {0}, stderr : {FALSE},
          exported : BOOLEAN]
    \cup [kind : {"TimeoutExpired", "FileNotFoundError", "OSError"},
          returncode : {0}, stderr : {FALSE}, exported : {FALSE}]

Digit(d) == <<"0", "1", "2", "3", "4", "5", "6", "7", "8", "9">>[d + 1]

(* str(n) of an int *)
RECURSIVE Str(_)
Str(n) ==
    IF n < 0 THEN <<"-">> \o Str(-n)
    ELSE IF n < 10 THEN <<Digit(n)>>
    ELSE Str(n \div 10) \o <<Digit(n % 10)>>

(* {k: v for k, v in details.items() if v is not None} *)
Given(details) ==
    [k \in {x \in DOMAIN details : details[x] # NoneValue} |-> details[k]]

(* __cause__ of an exception raised without `from` *)
NoCause == [cls |-> "None"]

NoException ==
    [cls |-> "None", message |-> "None", details |-> <<>>, cause |-> NoCause]

(* ScrapingError(message, source=..., error_code=..., operation=...), raised
   while handling cause *)
NewScrapingError(message, source, error_code, operation, cause) ==
    [cls |-> "ScrapingError", message |-> message,
     details |-> Given([source |-> source, error_code |-> error_code,
                        operation |-> operation]),
     cause |-> cause]

(* ToolError(message, tool_name=..., operation=...) *)
NewToolError(message, tool_name, operation) ==
    [cls |-> "ToolError", message |-> message,
     details |-> Given([tool_name |-> tool_name, operation |-> operation]),
     cause |-> NoCause]

(* ValidationError(message, field=...) *)
NewValidationError(message, field) ==
    [cls |-> "ValidationError", message |-> message,
     details |-> Given([field |-> field, value |-> NoneValue]),
     cause |-> NoCause]

Returns(value) == [raised |-> FALSE, exc |-> NoException, value |-> value]
Raises(exc) == [raised |-> TRUE, exc |-> exc, value |-> "None"]

(* `except Exception as e:` of scrape_jobs: whatever the try block raised,
   the ScrapingError of a non-zero exit included, is raised again as a
   ScrapingError `from e` *)
Unexpected(e) ==
    Raises(NewScrapingError("Unexpected error during scraping",
                            <<"go_scraper">>, NoneValue, <<"scrape_jobs">>,
                            e))

(* the try block of scrape_jobs and its except clauses *)
RunScraper(outcome) ==
    CASE outcome.kind = "TimeoutExpired" ->
           Raises(NewScrapingError("Scraping timed out", <<"go_scraper">>,
                                   NoneValue, <<"scrape_jobs">>, NoCause))
      [] outcome.kind = "FileNotFoundError" ->
           Raises(NewToolError("Scraper binary not found",
                               <<"JobScraperTool">>, <<"scrape_jobs">>))
      [] outcome.kind = "OSError" ->
           Unexpected([cls |-> "OSError"])
      [] outcome.kind = "exit" /\ outcome.returncode # 0 ->
           Unexpected(NewScrapingError(
                          IF outcome.stderr THEN "Scraping failed: stderr"
                          ELSE "Scraping failed: Unknown scraping error",
                          <<"go_scraper">>, Str(outcome.returncode),
                          NoneValue, NoCause))
      [] outcome.kind = "exit" /\ outcome.returncode = 0
           /\ ~outcome.exported ->
           Unexpected([cls |-> "ToolError"])
      [] OTHER -> Returns("success")

(* the body of scrape_jobs *)
ScrapeJobsBody(keywords, outcome) ==
    IF keywords = ""
      THEN Raises(NewValidationError("Keywords cannot be empty",
                                     <<"keywords">>))
      ELSE RunScraper(outcome)

(* runs: what the scraper process did at each attempt that ran it *)
NoScrape ==
    [pc |-> "idle", keywords |-> "", attempt |-> 0, runs |-> <<>>,
     out |-> Returns("None")]

ScrapeIdle == sj = NoScrape

(* tool.scrape_jobs(keywords): the retry wrapper starts its loop *)
ScrapeJobsCall(keywords) ==
    /\ sj.pc = "idle"
    /\ sj' = [NoScrape EXCEPT !.pc = "try", !.keywords = keywords]
    /\ UNCHANGED notScrape

(* one attempt: the body runs, and the retry wrapper returns its result,
   lets its exception through (a class that is not retried, or the last
   attempt) or goes to sleep *)
ScrapeJobsAttempt(outcome) ==
    /\ sj.pc = "try"
    /\ LET r == ScrapeJobsBody(sj.keywords, outcome)
           ran == [sj EXCEPT !.out = r,
                             !.runs = IF sj.keywords = "" THEN @
                                      ELSE Append(@, outcome)]
       IN  IF r.raised /\ IsInstance(r.exc, ScrapeJobsRetryable)
                /\ sj.attempt # ScrapeJobsAttempts - 1
             THEN sj' = [ran EXCEPT !.pc = "sleep"]
             ELSE sj' = [ran EXCEPT !.pc = "done"]
    /\ UNCHANGED notScrape

(* time.sleep(delay), then the next attempt *)
ScrapeJobsSleep ==
    /\ sj.pc = "sleep"
    /\ sj' = [sj EXCEPT !.pc = "try", !.attempt = @ + 1]
    /\ UNCHANGED notScrape

(***************************************************************************)
(* Specifications.  Each takes one component and leaves the others as      *)
(* they are when nobody uses them.                                         *)
(***************************************************************************)
(* a breaker nobody calls *)
CBIdle ==
    /\ now = 1
    /\ mode = "sync"
    /\ cfg = [failure_threshold |-> 1, recovery_timeout |-> 1,
              success_threshold |-> 1]
    /\ cb = NewBreaker
    /\ pc = [c \in Callers |-> "idle"]
    /\ tmp = [c \in Callers |-> 0]
    /\ call = [c \in Callers |-> NoCall]
    /\ failRun = 0
    /\ halfSucc = 0
    /\ maxRun = 0
    /\ everOk = FALSE
    /\ healthy = FALSE
    /\ left = [c \in Callers |-> Unlimited]

InitRL ==
    /\ CBIdle
    /\ RLInit
    /\ RetryIdle
    /\ TimeoutIdle
    /\ DIStart
    /\ HybridIdle
    /\ ScrapeIdle

NextRL == Tick \/ (\E n \in 0..MaxAcquire : Acquire(n)) \/ RateLimited

SpecRL == InitRL /\ [][NextRL]_vars

InitRLShared ==
    /\ CBIdle
    /\ rlcfg \in RateLimitConfig
    /\ RLStart
    /\ rleft = [c \in Callers |-> MaxCalls]
    /\ RetryIdle
    /\ TimeoutIdle
    /\ DIStart
    /\ HybridIdle
    /\ ScrapeIdle

NextRLShared == Tick \/ \E c \in Callers : RStep(c)

SpecRLShared == InitRLShared /\ [][NextRLShared]_vars

(* one thread: acquire calls that do not overlap *)
NextRLSerial == Tick \/ RStep(1)

SpecRLSerial == InitRLShared /\ [][NextRLSerial]_vars

InitRetry ==
    /\ CBIdle
    /\ RLIdle
    /\ RetryInit
    /\ TimeoutIdle
    /\ DIStart
    /\ HybridIdle
    /\ ScrapeIdle

NextRetry ==
    \/ RetryCall
    \/ RetryReturn
    \/ \E k \in Raisable : RetryExcept(k)
    \/ RetrySleep

SpecRetry == InitRetry /\ [][NextRetry]_vars

(* the waits of a wrapper whose operation keeps failing with a listed
   failure, or returns, under every delay configuration *)
InitRetryDelay ==
    /\ CBIdle
    /\ RLIdle
    /\ rcfg = [max_attempts |-> MaxAttempts,
               retryable_exceptions |-> DefaultRetryable]
    /\ rdelay \in RetryDelays
    /\ rwrapper \in {"sync", "async"}
    /\ RetryStart
    /\ TimeoutIdle
    /\ DIStart
    /\ HybridIdle
    /\ ScrapeIdle

NextRetryDelay ==
    \/ RetryCall
    \/ RetryReturn
    \/ RetryExcept("ConnectionError")
    \/ RetrySleep

SpecRetryDelay == InitRetryDelay /\ [][NextRetryDelay]_vars

InitTimeout ==
    /\ CBIdle
    /\ RLIdle
    /\ RetryIdle
    /\ TimeoutInit
    /\ DIStart
    /\ HybridIdle
    /\ ScrapeIdle

NextTimeout ==
    \/ Tick
    \/ TimeoutCall
    \/ SyncTimeoutReturn
    \/ AsyncTimeoutReturn
    \/ AsyncTimeoutExpire
    \/ TimeoutOpRaises

SpecTimeout == InitTimeout /\ [][NextTimeout]_vars

InitDI ==
    /\ CBIdle
    /\ RLIdle
    /\ RetryIdle
    /\ TimeoutIdle
    /\ DIStart
    /\ HybridIdle
    /\ ScrapeIdle

NextDI ==
    \/ \E t \in ServiceTypes, impl \in Implementation,
          lifetime \in ServiceLifetime : Register(t, impl, lifetime)
    \/ \E t \in ServiceTypes, f \in Factories,
          lifetime \in ServiceLifetime : RegisterFactory(t, f, lifetime)
    \/ \E t \in ServiceTypes : Resolve(t)
    \/ \E t \in ServiceTypes : ResolveOptional(t)
    \/ ClearSingletons
    \/ ClearScoped

SpecDI == InitDI /\ [][NextDI]_vars

(* the descriptors register and register_factory make for a lifetime *)
Descriptors(lifetime) ==
    {[lifetime |-> lifetime, implementation |-> impl, factory |-> "none"] :
        impl \in Implementation}
    \cup {[lifetime |-> lifetime, implementation |-> NoImplementation,
           factory |-> f] : f \in Factories}

(* a container used in create_scope blocks: each type is registered SCOPED
   (with a class, an object or a factory) or not at all, before the first
   block; then the types are resolved and the scoped instances cleared,
   inside and outside the blocks *)
InitDIScoped ==
    /\ CBIdle
    /\ RLIdle
    /\ RetryIdle
    /\ TimeoutIdle
    /\ \E services \in [ServiceTypes -> Descriptors(SCOPED) \cup {NotRegistered}] :
          /\ di = [NewContainer EXCEPT !.services = services]
          /\ dih = [NoResolutions EXCEPT !.registrations =
                        Cardinality({t \in ServiceTypes :
                                        services[t] # NotRegistered})]
    /\ dires = NoCall_DI
    /\ DIThreadsIdle
    /\ HybridIdle
    /\ ScrapeIdle

NextDIScoped ==
    \/ \E t \in ServiceTypes : Resolve(t)
    \/ ClearScoped
    \/ EnterScope
    \/ ExitScope

SpecDIScoped == InitDIScoped /\ [][NextDIScoped]_vars

(* a container used in create_scope blocks, some inside others: each type
   is registered SCOPED (with a class or a factory, which may raise),
   SINGLETON or not at all *)
NestedDescriptors ==
    {[lifetime |-> SCOPED,
      implementation |-> [kind |-> "class", needs |-> "nothing",
                          default |-> FALSE],
      factory |-> "none"],
     [lifetime |-> SINGLETON,
      implementation |-> [kind |-> "class", needs |-> "nothing",
                          default |-> FALSE],
      factory |-> "none"]}
    \cup {[lifetime |-> SCOPED, implementation |-> NoImplementation,
           factory |-> f] : f \in Factories}

InitDINested ==
    /\ CBIdle
    /\ RLIdle
    /\ RetryIdle
    /\ TimeoutIdle
    /\ \E services \in [ServiceTypes -> NestedDescriptors \cup {NotRegistered}] :
          /\ di = [NewContainer EXCEPT !.services = services]
          /\ dih = [NoResolutions EXCEPT !.registrations =
                        Cardinality({t \in ServiceTypes :
                                        services[t] # NotRegistered})]
    /\ dires = NoCall_DI
    /\ DIThreadsIdle
    /\ HybridIdle
    /\ ScrapeIdle

SpecDINested == InitDINested /\ [][NextDIScoped]_vars

(* a container whose capabilities are made by factories, one of which may
   ask the container for another capability *)
NextDIFactories ==
    \/ \E t \in ServiceTypes, f \in Factories \cup {Requires},
          lifetime \in ServiceLifetime : RegisterFactory(t, f, lifetime)
    \/ \E t \in ServiceTypes : Resolve(t)
    \/ \E t \in ServiceTypes : ResolveOptional(t)
    \/ ClearSingletons

SpecDIFactories == InitDI /\ [][NextDIFactories]_vars

(* threads that register, and resolve, the types of one container *)
NextDIThreads ==
    \E c \in Callers :
        \/ \E t \in ServiceTypes, desc \in Descriptors(SINGLETON) :
              RegisterCall(c, t, desc)
        \/ \E t \in ServiceTypes : ResolveCall(c, t)
        \/ AcquireLock(c)
        \/ RegisterWrite(c)
        \/ ResolveCheck(c)
        \/ ResolveRead(c)
        \/ ResolveBuild(c)

SpecDIThreads == InitDI /\ [][NextDIThreads]_vars

(* one hybrid search, with what the database tool and the scraper may do *)
InitHybrid ==
    /\ CBIdle
    /\ RLIdle
    /\ RetryIdle
    /\ TimeoutIdle
    /\ DIStart
    /\ HybridInit
    /\ ScrapeIdle

NextHybrid ==
    \/ Search
    \/ \E db_jobs \in Lists(DbRows, MaxDbJobs) : DatabaseReturns(db_jobs)
    \/ DatabaseFails
    \/ DatabaseRaises
    \/ \E scraping_jobs \in Lists(ScrapedRecords, MaxScrapedJobs) :
          ScraperReturns(scraping_jobs)
    \/ ScraperFails
    \/ ScraperRaises

SpecHybrid == InitHybrid /\ [][NextHybrid]_vars

(* one call of scrape_jobs, with what the scraper process may do *)
InitScrape ==
    /\ CBIdle
    /\ RLIdle
    /\ RetryIdle
    /\ TimeoutIdle
    /\ DIStart
    /\ HybridIdle
    /\ ScrapeIdle

NextScrape ==
    \/ \E keywords \in {"", "python"} : ScrapeJobsCall(keywords)
    \/ \E outcome \in ProcessOutcomes : ScrapeJobsAttempt(outcome)
    \/ ScrapeJobsSleep

SpecScrape == InitScrape /\ [][NextScrape]_vars

(* one step of caller c through the wrapper *)
Step(c) ==
    \/ CheckOpen(c) \/ CheckReset(c) \/ SetHalfOpen(c) \/ ResetSuccessCount(c)
    \/ Invoke(c) \/ ReturnOk(c) \/ RaiseExpected(c) \/ RaiseOther(c)
    \/ SuccCheckState(c) \/ SuccRead(c) \/ SuccWrite(c) \/ SuccThreshold(c)
    \/ SuccClose(c) \/ SuccResetFailures(c)
    \/ FailRead(c) \/ FailWrite(c) \/ FailStamp(c) \/ FailCheckState(c)
    \/ FailOpen(c)

Init ==
    /\ CBInit /\ RLIdle /\ RetryIdle /\ TimeoutIdle /\ DIStart /\ HybridIdle
    /\ ScrapeIdle

(* calls that do not overlap: one caller *)
Next == Tick \/ Step(1)

Spec == Init /\ [][Next]_vars

(***************************************************************************)
(* Recovery.  Time keeps advancing and the caller keeps calling; at some   *)
(* moment (Heal) the wrapped operation may stop failing for good.          *)
(* _should_attempt_reset reads the clock only in now - last_failure_time:  *)
(* past MaxTime the clock is kept relative, and an advance of the clock   *)
(* by one is a last_failure_time one further back.                         *)
(***************************************************************************)
TickPastHorizon ==
    /\ now = MaxTime
    /\ now - cb.last_failure_time < cfg.recovery_timeout
    /\ cb' = [cb EXCEPT !.last_failure_time = @ - 1]
    /\ UNCHANGED <<now, conf, pc, tmp, call, hist, others>>

Heal ==
    /\ ~healthy
    /\ healthy' = TRUE
    /\ UNCHANGED <<now, mode, cfg, left, cb, pc, tmp, call, hist, others>>

NextLive == Tick \/ TickPastHorizon \/ Heal \/ Step(1)

SpecLive ==
    /\ Init /\ [][NextLive]_vars
    /\ WF_vars(Tick \/ TickPastHorizon)
    /\ WF_vars(Step(1))

(* callers sharing one breaker *)
InitShared ==
    /\ now = 1
    /\ mode \in {"sync", "async"}
    /\ cfg \in CircuitBreakerConfig
    /\ cb = NewBreaker
    /\ pc = [c \in Callers |-> "idle"]
    /\ tmp = [c \in Callers |-> 0]
    /\ call = [c \in Callers |-> NoCall]
    /\ failRun = 0
    /\ halfSucc = 0
    /\ maxRun = 0
    /\ everOk = FALSE
    /\ healthy = FALSE
    /\ left = [c \in Callers |-> IF c = 1 THEN MaxCalls ELSE 1]
    /\ RLIdle
    /\ RetryIdle
    /\ TimeoutIdle
    /\ DIStart
    /\ HybridIdle
    /\ ScrapeIdle

NextShared == Tick \/ \E c \in Callers : Step(c)

SpecShared == InitShared /\ [][NextShared]_vars

(***************************************************************************)
(* Properties of the circuit breaker.  `Finished(c, o)`: caller c is back  *)
(* from a call that ended with o.                                          *)
(***************************************************************************)
Finished(c, o) == pc[c] = "idle" /\ call[c].out = o

(* C1: a call that finds the breaker OPEN with less than recovery_timeout
   elapsed since last_failure_time ends with a CircuitBreakerError naming
   the wrapped operation, and the wrapped operation is not invoked. *)
C1_OpenRejects ==
    \A c \in Callers :
        (/\ call[c].out # "none"
         /\ call[c].st0 = OPEN
         /\ call[c].elapsed # -1
         /\ call[c].elapsed < cfg.recovery_timeout)
        => /\ Finished(c, "CircuitBreakerError")
           /\ call[c].service_name = FuncName
           /\ ~call[c].inv

C1_Witness ==
    \E c \in Callers :
        /\ Finished(c, "CircuitBreakerError")
        /\ call[c].elapsed < cfg.recovery_timeout
        /\ cb.state = OPEN

(* C2: from CLOSED with failure_count 0, a failing call leaves the breaker
   CLOSED while fewer than failure_threshold calls have failed in a row, and
   the failure_threshold-th failing call in a row leaves it OPEN. *)
C2_OpensAtThreshold ==
    (Finished(1, "raised") /\ call[1].stRun = CLOSED)
    => IF failRun < cfg.failure_threshold
         THEN cb.state = CLOSED
         ELSE failRun = cfg.failure_threshold /\ cb.state = OPEN

C2_Witness ==
    /\ Finished(1, "raised") /\ call[1].stRun = CLOSED
    /\ cfg.failure_threshold = MaxThreshold
    /\ failRun = cfg.failure_threshold
    /\ cb.state = OPEN

(* C3: a successful call while CLOSED leaves failure_count 0 and the breaker
   CLOSED; and as long as no failure_threshold calls have failed in a row
   the breaker is CLOSED. *)
C3_OnlyConsecutiveFailuresCount ==
    /\ (Finished(1, "ok") /\ call[1].stRun = CLOSED)
       => cb.state = CLOSED /\ cb.failure_count = 0
    /\ maxRun < cfg.failure_threshold => cb.state = CLOSED

C3_Witness ==
    /\ Finished(1, "ok") /\ call[1].stRun = CLOSED
    /\ call[1].fc0 > 0
    /\ cb.failure_count = 0
    /\ maxRun < cfg.failure_threshold

(* C4: the breaker leaves OPEN only by the step of a call that found
   recovery_timeout elapsed, and then to HALF_OPEN; the passage of time
   changes nothing of the breaker; and a call that found the breaker OPEN
   with recovery_timeout elapsed invokes the wrapped operation with the
   breaker HALF_OPEN and success_count 0. *)
C4_Admitted ==
    /\ (pc[1] = "running" /\ call[1].st0 = OPEN)
       => /\ cb.state = HALF_OPEN
          /\ cb.success_count = 0
          /\ call[1].elapsed >= cfg.recovery_timeout
          /\ call[1].inv
    /\ (call[1].st0 = OPEN /\ call[1].elapsed >= cfg.recovery_timeout)
       => call[1].out # "CircuitBreakerError"

C4_LeavesOpen ==
    /\ (cb.state = OPEN /\ cb'.state # OPEN)
       => /\ cb'.state = HALF_OPEN
          /\ \E c \in Callers :
                /\ pc[c] = "set_half" /\ pc'[c] = "set_sc0"
                /\ call[c].elapsed >= cfg.recovery_timeout
    /\ now' # now => cb' = cb

C4_LazyHalfOpen == [](C4_Admitted) /\ [][C4_LeavesOpen]_vars

C4_Witness ==
    /\ pc[1] = "running" /\ call[1].st0 = OPEN
    /\ cb.state = HALF_OPEN
    /\ call[1].fc0 > cfg.failure_threshold

(* C5: in HALF_OPEN fewer than success_threshold successful calls since
   HALF_OPEN was entered leave the breaker HALF_OPEN; the
   success_threshold-th closes it and leaves failure_count 0. *)
C5_ClosesAtThreshold ==
    /\ (cb.state = HALF_OPEN /\ pc[1] \in {"idle", "invoke", "running"})
       => halfSucc < cfg.success_threshold
    /\ (Finished(1, "ok") /\ call[1].stRun = HALF_OPEN)
       => IF halfSucc < cfg.success_threshold
            THEN cb.state = HALF_OPEN
            ELSE /\ halfSucc = cfg.success_threshold
                 /\ cb.state = CLOSED
                 /\ cb.failure_count = 0

C5_Witness ==
    /\ Finished(1, "ok") /\ call[1].stRun = HALF_OPEN
    /\ cfg.success_threshold = MaxThreshold
    /\ call[1].fc0 > 0
    /\ cb.state = CLOSED

(* C6: a failing call made while the breaker is HALF_OPEN leaves it OPEN,
   with last_failure_time the time of that failure, whatever success_count
   and failure_threshold are. *)
C6_HalfOpenFailureOpens ==
    (Finished(1, "raised") /\ call[1].stRun = HALF_OPEN)
    => cb.state = OPEN /\ cb.last_failure_time = call[1].tfail

C6_Witness ==
    /\ Finished(1, "raised") /\ call[1].stRun = HALF_OPEN
    /\ cb.success_count > 0
    /\ cb.state = OPEN
    /\ cb.last_failure_time = now

(* C7: with time advancing and the caller calling, an OPEN breaker
   eventually admits a call (HALF_OPEN); and once the wrapped operation
   only succeeds, the breaker eventually is CLOSED. *)
C7_Recovers ==
    /\ (cb.state = OPEN) ~> (cb.state = HALF_OPEN)
    /\ (healthy /\ cb.state # CLOSED) ~> (cb.state = CLOSED)

C7_Witness ==
    /\ healthy
    /\ Finished(1, "ok") /\ call[1].stRun = HALF_OPEN
    /\ cfg.success_threshold = MaxThreshold
    /\ cb.state = CLOSED

(* C8: callers sharing one breaker: the updates of the breaker are
   serialized and no increment is lost.  In particular, once every call has
   returned and none has succeeded (so that nothing has reset
   failure_count), failure_count is the number of calls that failed. *)
C8_NoLostIncrement ==
    ((\A c \in Callers : pc[c] = "idle") /\ ~everOk /\ failRun <= MaxThreshold)
    => cb.failure_count = failRun

(* the same, of coroutines only: they switch at `await func(...)` alone *)
C8_AsyncOnly == mode = "async" => C8_NoLostIncrement

(***************************************************************************)
(* Properties of the rate limiter.                                         *)
(***************************************************************************)
(* C9: acquire(n) returns true and takes exactly n tokens when, after the
   refill, at least n tokens are there; otherwise it returns false and takes
   nothing. *)
C9_AcquireContract ==
    acq.n # -1 =>
        IF acq.refilled >= Whole(acq.n)
          THEN acq.ret /\ rl.tokens = acq.refilled - Whole(acq.n)
          ELSE ~acq.ret /\ rl.tokens = acq.refilled

C9_Witness ==
    /\ acq.n >= 1 /\ acq.n <= rlcfg.max_calls
    /\ ~acq.ret
    /\ acq.refilled > 0
    /\ rl.tokens = acq.refilled

(* C10: the bucket holds between 0 and max_calls tokens, and a refill adds
   elapsed * (max_calls / time_window) tokens, capped at max_calls. *)
C10_BucketBounds ==
    /\ 0 <= rl.tokens /\ rl.tokens <= Whole(rlcfg.max_calls)
    /\ acq.n # -1 =>
          acq.refilled = Min(Whole(rlcfg.max_calls),
                             acq.before + acq.elapsed * rlcfg.max_calls)

C10_Witness ==
    /\ acq.n # -1
    /\ acq.elapsed > 0
    /\ acq.before < Whole(rlcfg.max_calls)
    /\ acq.before + acq.elapsed * rlcfg.max_calls > Whole(rlcfg.max_calls)
    /\ acq.refilled = Whole(rlcfg.max_calls)

(* C11: of a bucket just created (full), the first max_calls acquire()
   calls all succeed, and the next one fails when it comes before the time
   that refills one token has passed (immediately, in particular); and an
   acquire that comes time_window or more after the bucket was emptied
   finds it refilled to max_calls tokens exactly. *)
C11_BurstThenReplenish ==
    /\ acq.nth \in 1..rlcfg.max_calls => acq.ret
    /\ (/\ acq.nth = rlcfg.max_calls + 1
        /\ (acq.at - rlhist.born) * rlcfg.max_calls < rlcfg.time_window)
       => ~acq.ret
    /\ (/\ acq.n # -1
        /\ acq.emptied # -1
        /\ acq.at - acq.emptied >= rlcfg.time_window)
       => acq.refilled = Whole(rlcfg.max_calls)

C11_Witness ==
    /\ rlcfg.max_calls >= 2
    /\ rlcfg.time_window >= 2
    /\ acq.n = 1
    /\ acq.emptied # -1
    /\ acq.at - acq.emptied >= rlcfg.time_window
    /\ acq.before = 0
    /\ acq.refilled = Whole(rlcfg.max_calls)

C11_WitnessBurst ==
    /\ rlcfg.max_calls >= 2
    /\ acq.nth = rlcfg.max_calls + 1
    /\ acq.at > rlhist.born
    /\ ~acq.ret

(* C12: a call through the limiter's wrapper whose acquire fails raises a
   RateLimitError whose retry_after is the configured time_window, and the
   wrapped operation is not invoked; when acquire succeeds the operation is
   invoked exactly once. *)
C12_RateLimitError ==
    rlcall.out # "none" =>
        IF rlcall.acquired
          THEN rlcall.invoked = 1
          ELSE /\ rlcall.out = "RateLimitError"
               /\ rlcall.invoked = 0
               /\ rlcall.retry_after * TicksPerSecond = rlcfg.time_window

(* the same without the value of the hint *)
C12_RaisesAndSkips ==
    rlcall.out # "none" =>
        IF rlcall.acquired
          THEN rlcall.invoked = 1
          ELSE rlcall.out = "RateLimitError" /\ rlcall.invoked = 0

(* C13: threads sharing one RateLimiter: the token count is never negative,
   and the tokens granted never exceed the initial capacity plus the tokens
   refilled over the time elapsed since the bucket was created. *)
C13_NoOverGrant ==
    /\ rl.tokens >= 0
    /\ Whole(rgrant) <=
          Whole(rlcfg.max_calls) + (now - rlhist.born) * rlcfg.max_calls

(* the two parts of C13 *)
C13_NeverNegative == rl.tokens >= 0

C13_GrantBound ==
    Whole(rgrant) <=
        Whole(rlcfg.max_calls) + (now - rlhist.born) * rlcfg.max_calls

(***************************************************************************)
(* Properties of the retry wrapper.                                        *)
(***************************************************************************)
Failures == 1..Len(rthist.fails)

Listed(e) == IsInstance(e, rcfg.retryable_exceptions)

AllListed == \A i \in Failures : Listed(rthist.fails[i])

(* the call ended at invocation i, by the failure of that invocation reaching
   the caller, with no wait after it *)
PropagatedAt(i) ==
    /\ rt.pc = "idle"
    /\ rthist.out = "raised"
    /\ rthist.exc = rthist.fails[i]
    /\ rthist.invoked = i
    /\ rthist.slept = i - 1

(* C14: the operation is invoked again only after a failure of a class
   listed in retryable_exceptions (or of a subclass); a failure of any other
   class reaches the caller after that invocation, with no wait and no
   further attempt. *)
C14_OnlyListedRetried ==
    /\ \A i \in Failures : i < rthist.invoked => Listed(rthist.fails[i])
    /\ rthist.slept <= Len(rthist.fails)
    /\ \A i \in Failures : ~Listed(rthist.fails[i]) => PropagatedAt(i)

C14_Witness ==
    /\ rcfg = [max_attempts |-> 3, retryable_exceptions |-> ScrapeJobsRetryable]
    /\ rt.pc = "idle"
    /\ rthist.out = "raised"
    /\ rthist.exc = [cls |-> "ValidationError", id |-> 1]
    /\ rthist.invoked = 1
    /\ rthist.slept = 0

(* C15: for max_attempts >= 1, the operation is never invoked more than
   max_attempts times; after f < max_attempts listed failures the wrapper
   tries again, and when the operation then succeeds it has been invoked
   f + 1 times and the wrapper returns that value; when every attempt fails
   with a listed failure the wrapper raises after exactly max_attempts
   invocations. *)
C15_AttemptCount ==
    rcfg.max_attempts >= 1 =>
        /\ rthist.invoked <= rcfg.max_attempts
        /\ (AllListed /\ Len(rthist.fails) < rcfg.max_attempts)
              => rthist.out # "raised"
        /\ rthist.out = "returned"
              => /\ rt.pc = "idle"
                 /\ rthist.invoked = Len(rthist.fails) + 1
                 /\ rthist.result = rthist.invoked
        /\ (AllListed /\ Len(rthist.fails) = rcfg.max_attempts)
              => /\ rt.pc = "idle"
                 /\ rthist.out = "raised"
                 /\ rthist.invoked = rcfg.max_attempts

C15_Witness ==
    /\ rcfg.max_attempts = 3
    /\ Len(rthist.fails) = 2
    /\ AllListed
    /\ rthist.out = "returned"
    /\ rthist.invoked = 3

C15_WitnessExhausted ==
    /\ rcfg.max_attempts = 2
    /\ rwrapper = "async"
    /\ \A i \in Failures : rthist.fails[i].cls = "ConnectionError"
    /\ rthist.out = "raised"
    /\ rthist.invoked = 2

(* C16: when all max_attempts attempts fail with listed failures, the caller
   receives the exception raised by the last attempt itself. *)
C16_LastFailureUnchanged ==
    (/\ rcfg.max_attempts >= 1
     /\ AllListed
     /\ Len(rthist.fails) = rcfg.max_attempts)
    => /\ rthist.out = "raised"
       /\ rthist.exc = rthist.fails[rcfg.max_attempts]

C16_Witness ==
    /\ rcfg.max_attempts >= 2
    /\ AllListed
    /\ Len(rthist.fails) = rcfg.max_attempts
    /\ rthist.fails[1].cls # rthist.fails[rcfg.max_attempts].cls
    /\ rthist.out = "raised"
    /\ rthist.exc = rthist.fails[rcfg.max_attempts]

(* C17: under the default RetryConfig and the resilient_* presets a
   CircuitBreakerError raised by the (breaker-guarded) operation reaches the
   caller after that attempt, with no wait and no further invocation. *)
C17_BreakerErrorNotRetried ==
    rcfg.retryable_exceptions \in
        {DefaultRetryable, ExternalServiceRetryable, AgentOperationRetryable}
    => \A i \in Failures :
           rthist.fails[i].cls = "CircuitBreakerError" => PropagatedAt(i)

C17_Witness ==
    /\ rcfg = [max_attempts |-> 3, retryable_exceptions |-> DefaultRetryable]
    /\ Len(rthist.fails) = 2
    /\ rthist.fails[1].cls = "ExternalServiceError"
    /\ rthist.fails[2].cls = "CircuitBreakerError"
    /\ PropagatedAt(2)

(***************************************************************************)
(* Properties of the timeout wrapper.                                      *)
(***************************************************************************)
(* C18: a call through timeout(seconds) whose operation took longer than the
   limit ends with a Timeout failure, not with the operation's result, under
   the synchronous wrapper as under the asynchronous one. *)
C18_TimeoutRaised ==
    (tohist.out # "none" /\ tohist.elapsed > tocfg.timeout_seconds)
    => tohist.out = "AgentTimeoutError"

(* the same, of the asynchronous wrapper only *)
C18_AsyncOnly == tocfg.wrapper = "async" => C18_TimeoutRaised

C18_AsyncWitness ==
    /\ tocfg.wrapper = "async"
    /\ tohist.out = "AgentTimeoutError"
    /\ tohist.elapsed > tocfg.timeout_seconds

(***************************************************************************)
(* Properties of the service container.                                    *)
(***************************************************************************)
(* the last call was get_required_service(t), and it returned an instance *)
Resolved(t) ==
    /\ dires.op = "get_required_service"
    /\ dires.type = t
    /\ dires.err = "none"

ByClassOrFactory(t) ==
    \/ di.services[t].factory # "none"
    \/ di.services[t].implementation.kind = "class"

(* C19: for a type registered SINGLETON, and as long as clear_singletons is
   not called, an instance is made at most once, and every resolution
   (get_required_service, from outside or for a constructor parameter)
   returns the instance the first one returned. *)
C19_SingletonOnce ==
    /\ dih.singletonSame
    /\ \A t \in ServiceTypes :
          /\ dih.built[t] <= 1
          /\ (Resolved(t) /\ di.services[t].lifetime = SINGLETON)
                => /\ dires.val = dih.first[t]
                   /\ dires.val = di.singletons[t]

C19_Witness ==
    \E t \in ServiceTypes :
        /\ di.services[t].lifetime = SINGLETON
        /\ di.services[t].implementation.kind = "class"
        /\ Resolved(t)
        /\ dih.built[t] = 1
        /\ dires.val = dih.first[t]
        /\ dires.val < di.next

(* C20: for a type registered TRANSIENT with a class or a factory, every
   resolution makes a new instance: it returns an object that no resolution
   returned before, and puts nothing in the caches. *)
C20_TransientFresh ==
    /\ dih.transientFresh
    /\ \A t \in ServiceTypes :
          (/\ Resolved(t)
           /\ di.services[t].lifetime = TRANSIENT
           /\ ByClassOrFactory(t))
          => /\ dires.val = di.next
             /\ \A u \in ServiceTypes :
                    /\ di.singletons[u] # dires.val
                    /\ di.scoped_instances[u] # dires.val

C20_Witness ==
    \E t \in ServiceTypes :
        /\ dih.registrations = 1
        /\ di.services[t].lifetime = TRANSIENT
        /\ di.services[t].implementation.kind = "class"
        /\ Resolved(t)
        /\ dires.val = 2

C20_WitnessFactory ==
    \E t \in ServiceTypes :
        /\ dih.registrations = 1
        /\ di.services[t].lifetime = TRANSIENT
        /\ di.services[t].factory = "builds"
        /\ Resolved(t)
        /\ dires.val = 3

(* the create_scope blocks that have been left *)
ExitedScopes ==
    (1..dih.entered) \ ({dih.scope} \cup {dih.active[i] : i \in DOMAIN dih.active})

(* C21, as stated: for a type registered SCOPED, the resolutions made in one
   create_scope block all return the same instance, resolutions made in two
   different blocks return different instances, and no resolution returns
   an instance that a resolution returned in a block that has been left.
   (clear_scoped starts the block's record again.) *)
C21_ScopedPerScope ==
    /\ \A x, y \in dih.got :
          (x[1] > 0 /\ y[1] > 0 /\ x[2] = y[2])
             => (x[1] = y[1] <=> x[3] = y[3])
    /\ \A t \in ServiceTypes :
          (Resolved(t) /\ di.services[t].lifetime = SCOPED)
             => \A x \in dih.got :
                   (x[2] = t /\ x[3] = dires.val) => x[1] \notin ExitedScopes

(* C21, amended: the same for a type registered SCOPED with a class or a
   factory, whose instances the container constructs; outside all blocks
   counts as one more scope.  (An object registered SCOPED is returned as it
   is, in every block.) *)
C21_ScopedConstructed ==
    /\ \A x, y \in dih.got :
          (x[2] = y[2] /\ x[3] # GivenObject /\ y[3] # GivenObject)
             => (x[1] = y[1] <=> x[3] = y[3])
    /\ \A t \in ServiceTypes :
          (Resolved(t) /\ di.services[t].lifetime = SCOPED
             /\ dires.val # GivenObject)
             => /\ dires.val = di.scoped_instances[t]
                /\ \A x \in dih.got :
                      (x[2] = t /\ x[3] = dires.val) => x[1] = dih.scope

(* in the second block, a resolution returns the instance an earlier
   resolution of the block made, and not the one of the first block *)
C21_Witness ==
    \E t \in ServiceTypes :
        /\ Resolved(t)
        /\ di.services[t].implementation.kind = "class"
        /\ dih.scope = 2
        /\ 1 \in ExitedScopes
        /\ dires.val < di.next
        /\ \E x \in dih.got : x[1] = 1 /\ x[2] = t /\ x[3] # dires.val

(* C22: a call of get_required_service for a type that was never registered
   raises KeyError, a call of get_service for it returns None, and neither
   changes the registrations, the singletons or the scoped instances. *)
C22_NotRegistered ==
    [][\A t \in ServiceTypes :
          (di.services[t] = NotRegistered /\ dires'.type = t)
             => /\ dires'.op = "get_required_service"
                      => (dires'.err = "KeyError" /\ di' = di)
                /\ dires'.op = "get_service"
                      => (dires'.err = "none" /\ dires'.val = NoInstance
                            /\ di' = di)]_vars

(* get_service has returned None for a type that is not registered, in a
   container that holds a singleton of the other type *)
C22_Witness ==
    \E t, u \in ServiceTypes :
        /\ di.services[t] = NotRegistered
        /\ dires = DIDone("get_service", t)
        /\ di.singletons[u] > 0

(* get_required_service has raised KeyError for it *)
C22_WitnessRequired ==
    \E t, u \in ServiceTypes :
        /\ di.services[t] = NotRegistered
        /\ dires = DICall("get_required_service", t, "KeyError", NoInstance,
                          NoInstance, "none")
        /\ di.singletons[u] > 0

(* C23: after register or register_factory is called again for a type, a
   resolution of the type is served from the implementation registered
   last: it returns the registered object exactly when an object was
   registered last, and otherwise an instance the container made.  (An
   instance cached under the earlier registration is not to be served.) *)
C23_ServedFromLatest ==
    \A t \in ServiceTypes :
        Resolved(t) =>
            /\ di.services[t].implementation.kind = "object"
                  <=> dires.val = GivenObject
            /\ di.services[t].factory # "raises"

(* a resolution of t has to make an instance: none is cached for the
   lifetime t is registered with *)
MustBuild(t) ==
    /\ di.services[t].lifetime = SINGLETON => di.singletons[t] = NoInstance
    /\ di.services[t].lifetime = SCOPED => di.scoped_instances[t] = NoInstance

(* C24: when get_required_service makes an instance of a class with a
   constructor parameter: if the parameter is declared with a registered
   type and the resolution succeeds, the constructor got the instance the
   container resolves that type to (the cached one of a SINGLETON or SCOPED
   type, the registered object, or an instance made during this call); if
   the parameter has no type hint or an unregistered type, and a default
   value, the constructor got the default; if it has neither, the call
   raises an error that names the parameter and the container is left as it
   was. *)
C24_ConstructorInjection ==
    [][\A t \in ServiceTypes :
          (/\ dires'.op = "get_required_service"
           /\ dires'.type = t
           /\ di.services[t].implementation.kind = "class"
           /\ di.services[t].implementation.needs # "nothing"
           /\ MustBuild(t))
          => LET impl == di.services[t].implementation
                 p == impl.needs
                 registered == IF p \in ServiceTypes
                                 THEN di.services[p] # NotRegistered
                                 ELSE FALSE
             IN  IF registered
                   THEN dires'.err = "none" =>
                          /\ dires'.val = di'.next
                          /\ LET dep == di.services[p]
                             IN  IF dep.implementation.kind = "object"
                                    /\ (dep.lifetime = TRANSIENT \/ MustBuild(p))
                                   THEN dires'.arg = GivenObject
                                 ELSE IF dep.lifetime = SINGLETON
                                   THEN dires'.arg = di'.singletons[p]
                                 ELSE IF dep.lifetime = SCOPED
                                   THEN dires'.arg = di'.scoped_instances[p]
                                 ELSE /\ dires'.arg > di.next
                                      /\ dires'.arg < dires'.val
                 ELSE IF impl.default
                   THEN /\ dires'.err = "none"
                        /\ dires'.val = di'.next
                        /\ dires'.arg = DefaultValue
                 ELSE /\ dires'.err = "RuntimeError"
                      /\ dires'.about = p
                      /\ di' = di]_vars

(* an instance has been made with the singleton of the type its constructor
   declares *)
C24_Witness ==
    \E t, p \in ServiceTypes :
        /\ Resolved(t)
        /\ di.services[t].implementation = [kind |-> "class", needs |-> p,
                                              default |-> FALSE]
        /\ di.services[p].lifetime = SINGLETON
        /\ dires.val = di.next
        /\ dires.arg = di.singletons[p]
        /\ dires.arg > 0

(* an instance has been made with the default value *)
C24_WitnessDefault ==
    \E t, p \in ServiceTypes :
        /\ Resolved(t)
        /\ di.services[t].implementation.needs = p
        /\ di.services[p] = NotRegistered
        /\ dires.val = di.next
        /\ dires.arg = DefaultValue

(* a resolution has failed with an error naming the parameter *)
C24_WitnessFails ==
    \E t \in ServiceTypes :
        /\ dires.op = "get_required_service"
        /\ dires.type = t
        /\ di.services[t].implementation.needs = "untyped"
        /\ dires.err = "RuntimeError"
        /\ dires.about = "untyped"
        /\ di.singletons[t] = NoInstance

(* C25: a resolution over a cycle of constructor dependencies (a class that
   needs its own type, or two that need each other's) ends with an error of
   the container that reports the cycle: it never recurses until the
   interpreter's recursion limit stops it. *)
C25_CycleDetected ==
    dires.about # RecursionLimit

(* the threads inside get_required_service *)
Resolving == {c \in Callers : dipc[c] \in {"check", "read", "build"}}

(* C26: while a thread is inside get_required_service, from taking the lock
   to the end of the with block, no step of another thread changes the
   registrations, no other thread is inside register, register_factory or
   get_required_service, and the descriptor the thread has read is the one
   registered for the type. *)
C26_MutuallyExclusive ==
    [][\A c \in Resolving :
          /\ di'.services = di.services
          /\ \A d \in Callers \ {c} : dipc[d] \in {"idle", "acquire"}
          /\ dipc[c] = "build"
                => diloc[c].desc = di.services[diloc[c].type]]_vars

(* a thread resolves a type while another waits for the lock to register
   that type with another descriptor *)
C26_Witness ==
    \E c, d \in Callers :
        /\ dipc[c] = "build"
        /\ dipc[d] = "acquire"
        /\ diloc[d].op = "register"
        /\ diloc[d].type = diloc[c].type
        /\ diloc[d].desc # diloc[c].desc

(* a search has returned a successful result *)
Found == hs.pc = "done" /\ hsres.success

(* the jobs the sources delivered, in the order they are combined *)
Delivered == hs.db_jobs \o hs.scraping_jobs

(* the title, company and location of a job, in lower case and without the
   blanks around them *)
DedupKey(job) ==
    <<Strip(Lower(job.title)), Strip(Lower(job.company)),
      Strip(Lower(job.location))>>

(* the place of the first delivered job with the key of job *)
FirstWith(job) ==
    CHOOSE i \in DOMAIN Delivered :
        /\ DedupKey(Delivered[i]) = DedupKey(job)
        /\ \A j \in 1..(i - 1) : DedupKey(Delivered[j]) # DedupKey(job)

(* C27: in the jobs of a successful hybrid search no two have the same
   deduplication key; each is the first job delivered with its key, so that
   of a database row and a scraped record with one key the row is kept. *)
C27_UniqueKeys ==
    Found =>
        /\ \A i, j \in DOMAIN hsres.jobs :
              DedupKey(hsres.jobs[i]) = DedupKey(hsres.jobs[j]) => i = j
        /\ \A i \in DOMAIN hsres.jobs :
              /\ hsres.jobs[i].id = Delivered[FirstWith(hsres.jobs[i])].id
              /\ (\E k \in DOMAIN hs.db_jobs :
                      DedupKey(hs.db_jobs[k]) = DedupKey(hsres.jobs[i]))
                    => hsres.jobs[i].source_type = "database"

(* rows 2 and 1 and the scraped record 5 have one key: row 2, the first, is
   the only one of them in the result *)
C27_Witness ==
    /\ Found
    /\ Len(hs.db_jobs) = 2
    /\ hs.db_jobs[1].id = 2
    /\ hs.db_jobs[2].id = 1
    /\ \E k \in DOMAIN hs.scraping_jobs : hs.scraping_jobs[k].id = 5
    /\ \E i \in DOMAIN hsres.jobs : hsres.jobs[i].id = 2
    /\ \A i \in DOMAIN hsres.jobs : hsres.jobs[i].id \notin {1, 5}

(* the calls of the scraper so far *)
ScraperCalls == {i \in DOMAIN hs.calls : hs.calls[i] = "scraper"}

(* the database lookup has not returned but raised *)
LookupRaised ==
    hs.pc = "done" /\ ~hsres.success /\ hsres.error = "DatabaseError"

(* C28: once the database lookup has returned, the scraper has been called
   if and only if include_scraping is set and the lookup returned fewer
   than scrape_threshold jobs; it is called at most once and never before
   the lookup has returned; and scraping_triggered in the result tells
   whether it was called. *)
C28_ScrapeDecision ==
    /\ hs.pc \in {"idle", "database"} => ScraperCalls = {}
    /\ (hs.pc \in {"scraper", "done"} /\ ~LookupRaised) =>
          /\ ScraperCalls # {}
                <=> (hsreq.include_scraping
                       /\ Len(hs.db_jobs) < hsreq.scrape_threshold)
          /\ Cardinality(ScraperCalls) <= 1
          /\ hs.calls[1] = "database"
    /\ Found => (hsres.scraping_triggered <=> ScraperCalls # {})

(* a search that called the scraper: the lookup returned one job, under a
   threshold of two *)
C28_Witness ==
    /\ Found
    /\ hsres.scraping_triggered
    /\ hsres.database_count = 1
    /\ hsreq.scrape_threshold = 2
    /\ hs.calls = <<"database", "scraper">>

(* a search with include_scraping that did not: the lookup returned as many
   jobs as the threshold *)
C28_WitnessNotTriggered ==
    /\ Found
    /\ hsreq.include_scraping
    /\ ~hsres.scraping_triggered
    /\ hsres.database_count = hsreq.scrape_threshold
    /\ hs.calls = <<"database">>

(* the place of the job with this id among the delivered ones *)
PlaceOf(id) == CHOOSE i \in DOMAIN Delivered : Delivered[i].id = id

(* C29: the jobs of a successful hybrid search are in descending order of
   relevance_score, and those of equal score in the order they were
   delivered: the database rows in their order, then the scraped records in
   theirs. *)
C29_RankedStable ==
    Found =>
        \A i, j \in DOMAIN hsres.jobs :
            i < j =>
                /\ hsres.jobs[i].relevance_score >= hsres.jobs[j].relevance_score
                /\ hsres.jobs[i].relevance_score = hsres.jobs[j].relevance_score
                      => PlaceOf(hsres.jobs[i].id) < PlaceOf(hsres.jobs[j].id)

(* rows 3 and 1 and the scraped record 6 all have score 6 and are in the
   order they were delivered; the scraped record of score 4 is last *)
C29_Witness ==
    /\ Found
    /\ Len(hsres.jobs) = 4
    /\ hsres.jobs[1].id = 3
    /\ hsres.jobs[2].id = 1
    /\ hsres.jobs[3].id = 6
    /\ hsres.jobs[3].source_type = "live_scraping"
    /\ hsres.jobs[3].relevance_score = hsres.jobs[1].relevance_score
    /\ hsres.jobs[4].relevance_score = 4

(* how many jobs the insights count for a source type *)
Counted(source_type) ==
    IF "source_distribution" \in DOMAIN hsres.insights
      THEN IF source_type \in DOMAIN hsres.insights.source_distribution
             THEN hsres.insights.source_distribution[source_type]
             ELSE 0
      ELSE 0

(* C30: when the database lookup returns d rows and the scraper, called,
   returns s records, all of different keys and d + s <= max_results, the
   result has d + s jobs, database_count d, scraping_count s, and its
   source_distribution counts d jobs as database and s as live_scrape. *)
C30_Counts ==
    (/\ Found
     /\ hs.should_scrape
     /\ hsres.scraping_error = NoError
     /\ \A i, j \in DOMAIN Delivered :
            DedupKey(Delivered[i]) = DedupKey(Delivered[j]) => i = j
     /\ Len(Delivered) <= hsreq.max_results)
    => /\ Len(hsres.jobs) = Len(Delivered)
       /\ hsres.total_found = Len(Delivered)
       /\ hsres.database_count = Len(hs.db_jobs)
       /\ hsres.scraping_count = Len(hs.scraping_jobs)
       /\ Counted("database") = Len(hs.db_jobs)
       /\ Counted("live_scrape") = Len(hs.scraping_jobs)

(* C31: search_jobs_intelligently always comes back with a result: the
   result has a success flag, and a result whose flag is false has an error
   message and an empty job list, whatever the database tool, the scraper
   and the ranking did *)
C31_FailureWellFormed ==
    hs.pc = "done"
    => /\ "success" \in DOMAIN hsres
       /\ hsres.success \in BOOLEAN
       /\ ~hsres.success
          => /\ {"error", "jobs"} \subseteq DOMAIN hsres
             /\ hsres.error # NoError
             /\ hsres.jobs = <<>>

(* the ranking step has raised, after the database tool and the scraper
   had both been called *)
C31_Witness ==
    /\ hs.pc = "done"
    /\ ~hsres.success
    /\ hsres.error = "AttributeError"
    /\ hs.calls = <<"database", "scraper">>

(* the database tool itself has raised *)
C31_WitnessDatabase ==
    /\ hs.pc = "done"
    /\ ~hsres.success
    /\ hsres.error = "DatabaseError"

(* the scraper was called and failed *)
ScraperFailed ==
    hs.pc = "done" /\ hs.should_scrape /\ hs.scraping_error # NoError

(* a row of the database lookup lacks a field of the deduplication key, on
   which the ranking raises whatever the scraper did *)
RowsUnrankable == \E i \in DOMAIN hs.db_jobs : KeyRaises(hs.db_jobs[i])

(* C39: when the scraper was triggered and failed, by raising or by
   returning success False, the search succeeds as it does on the database
   rows alone: the result has the database rows, ranked, scraping_count 0,
   scraping_triggered true and the failure message as scraping_error; it is
   a failure only when the ranking of the database rows raises *)
C39_ScraperFailureContained ==
    ScraperFailed
    => /\ hsres.success = ~RowsUnrankable
       /\ hsres.success
          => /\ hsres.scraping_count = 0
             /\ hsres.scraping_triggered
             /\ hsres.scraping_error = hs.scraping_error
             /\ hsres.database_count = Len(hs.db_jobs)
             /\ \A i \in DOMAIN hsres.jobs :
                   /\ hsres.jobs[i].source_type = "database"
                   /\ \E j \in DOMAIN hs.db_jobs :
                         hs.db_jobs[j].id = hsres.jobs[i].id
                   /\ \A j \in DOMAIN hsres.jobs :
                         i < j => hsres.jobs[i].relevance_score
                                    >= hsres.jobs[j].relevance_score
             /\ (hs.db_jobs # <<>> /\ hsreq.max_results > 0)
                => hsres.jobs # <<>>

(* the scraper has raised after a database lookup that found a row *)
C39_Witness ==
    /\ ScraperFailed
    /\ hs.scraping_error = "ScrapingError"
    /\ hsres.success
    /\ Len(hsres.jobs) = 2

(* the scraper has returned success False *)
C39_WitnessReturned ==
    /\ ScraperFailed
    /\ hs.scraping_error = "scraper error"
    /\ hsres.success
    /\ hsres.jobs # <<>>

(* the database lookup has returned success False *)
LookupFailed == hs.pc \in {"scraper", "done"} /\ ~hs.db_success

(* C40: a database lookup that returns success False counts as a lookup
   that found nothing: with include_scraping and scrape_threshold >= 1 the
   scraper is called, and the search ends with success true and
   database_count 0 *)
C40_FailedLookupIsEmpty ==
    LookupFailed
    => /\ hs.db_jobs = <<>>
       /\ (hsreq.include_scraping /\ hsreq.scrape_threshold >= 1)
          => /\ hs.should_scrape
             /\ hs.calls = <<"database", "scraper">>
       /\ hs.pc = "done"
          => /\ hsres.success
             /\ hsres.database_count = 0
             /\ hsres.scraping_triggered
                  = (hsreq.include_scraping /\ hsreq.scrape_threshold >= 1)

(* the lookup failed, the scraper was called and delivered a record, and
   the search has succeeded on it *)
C40_Witness ==
    /\ LookupFailed
    /\ hs.pc = "done"
    /\ hsreq.include_scraping
    /\ hsreq.scrape_threshold >= 1
    /\ hs.calls = <<"database", "scraper">>
    /\ hsres.success
    /\ hsres.database_count = 0
    /\ hsres.scraping_count = 1

(* C37: get_service returns None only for a type that is not registered;
   for a registered type it returns the instance or raises what the
   construction raised, a KeyError of a factory included *)
C37_AbsentOnlyUnregistered ==
    (dires.op = "get_service" /\ dires.err = "none"
       /\ dires.val = NoInstance)
    => di.services[dires.type] = NotRegistered

(* what the resolutions of t in block s have returned since the scoped
   instances were last cleared there, or NoInstance *)
Held(s, t) ==
    IF \E x \in dih.got : x[1] = s /\ x[2] = t
      THEN (CHOOSE x \in dih.got : x[1] = s /\ x[2] = t)[3]
      ELSE NoInstance

(* C38: the end of a create_scope block, left normally or by an exception,
   puts back the scoped instances of the block around it, as the
   resolutions made there left them, so that there a SCOPED type resolves
   again to the instance it resolved to before the block; and neither the
   start nor the end of a block changes the singletons or the
   registrations *)
C38_ExitRestores ==
    /\ [](\A x, y \in dih.got :
             (x[1] = y[1] /\ x[2] = y[2]) => x[3] = y[3])
    /\ [][/\ Len(di'.scopes) # Len(di.scopes)
             => /\ di'.singletons = di.singletons
                /\ di'.services = di.services
          /\ Len(di'.scopes) < Len(di.scopes)
             => \A t \in ServiceTypes :
                   di'.scoped_instances[t] = Held(dih'.scope, t)]_vars

(* outside all blocks, after a block in which the type resolved to another
   instance, a SCOPED type has resolved to the instance it resolved to before
   that block, while a singleton was held *)
C38_Witness ==
    \E t \in ServiceTypes :
        /\ Resolved(t)
        /\ di.services[t].lifetime = SCOPED
        /\ dih.scope = 0
        /\ \E x \in dih.got :
              x[1] \in ExitedScopes /\ x[2] = t /\ x[3] > dires.val
        /\ \E u \in ServiceTypes : di.singletons[u] # NoInstance

(* the same inside a block, after a block nested in it *)
C38_WitnessNested ==
    \E t \in ServiceTypes :
        /\ Resolved(t)
        /\ di.services[t].lifetime = SCOPED
        /\ dih.scope = 1
        /\ \E x \in dih.got :
              x[1] = 2 /\ 2 \in ExitedScopes /\ x[2] = t /\ x[3] > dires.val

(* C34: the steps of a call that is rejected because the breaker is OPEN,
   the test of the state and the raise of CircuitBreakerError, leave state,
   failure_count, success_count and last_failure_time as they are: a
   rejection does not start the cooldown again *)
C34_RejectionLeavesBreaker ==
    [][\A c \in Callers :
          (\/ pc[c] = "idle" /\ pc'[c] = "chk_reset"
           \/ pc[c] = "chk_reset" /\ pc'[c] = "idle")
          => /\ cb'.state = cb.state
             /\ cb'.failure_count = cb.failure_count
             /\ cb'.success_count = cb.success_count
             /\ cb'.last_failure_time = cb.last_failure_time]_vars

(* a call has been rejected some time after the failure that opened the
   breaker, whose time the breaker still holds *)
C34_Witness ==
    /\ Finished(1, "CircuitBreakerError")
    /\ cb.state = OPEN
    /\ call[1].elapsed = 1
    /\ cfg.recovery_timeout = MaxRecovery
    /\ cb.last_failure_time = now - 1

(* C35: with failure_threshold >= 1 and calls that do not overlap, a CLOSED
   breaker has failure_count < failure_threshold in every state but those
   no caller sees, inside _on_failure between `self.failure_count += 1` and
   the change of state that follows it, and inside _on_success between
   `self.state = CLOSED` and `self.failure_count = 0`; and success_count
   never exceeds success_threshold *)
C35_CountsBounded ==
    /\ (pc[1] \notin {"fail_lft", "fail_chk", "fail_open", "succ_fc0"}
          /\ cb.state = CLOSED)
       => cb.failure_count < cfg.failure_threshold
    /\ cb.success_count <= cfg.success_threshold

(* a CLOSED breaker one failure short of opening, after it has closed with
   success_threshold successes *)
C35_Witness ==
    /\ pc[1] = "idle"
    /\ cb.state = CLOSED
    /\ cfg.failure_threshold = MaxThreshold
    /\ cb.failure_count = cfg.failure_threshold - 1
    /\ cb.success_count = cfg.success_threshold
    /\ cfg.success_threshold = MaxThreshold

(* C36: with coroutines sharing one breaker, only a call that was admitted
   while the breaker was HALF_OPEN counts its success toward
   success_threshold and closes the breaker: a call whose operation started
   while the breaker was CLOSED and returns while it is HALF_OPEN does not
   reach the counting branch of _on_success *)
C36_OnlyTrialCallsClose ==
    mode = "async"
    => \A c \in Callers :
          pc[c] \in {"succ_rd", "succ_wr", "succ_thr", "succ_close"}
          => call[c].stRun = HALF_OPEN

(* min(base_delay * exponential_base^k, max_delay), in tenths of a second *)
Backoff(k) ==
    LET grown == rdelay.base_delay * Power(rdelay.exponential_base, k)
    IN  Tenths * (IF grown <= rdelay.max_delay THEN grown
                  ELSE rdelay.max_delay)

(* C33: the wait after the k-th failure (k from 0) is
   min(base_delay * exponential_base^k, max_delay) without jitter, so that
   the waits of a call never decrease and never exceed max_delay; with
   jitter it lies between that value d and d + 10% of d; in the blocking and
   in the suspending wrapper alike.  (exponential_base is at least 1, as in
   every RetryConfig of the repository.) *)
C33_BackoffDelay ==
    \A i \in DOMAIN rthist.waits :
        LET k == i - 1
            d == Backoff(k)
        IN  IF rdelay.jitter
              THEN /\ d <= rthist.waits[i]
                   /\ Tenths * rthist.waits[i] <= Tenths * d + d
              ELSE /\ rthist.waits[i] = d
                   /\ rthist.waits[i] <= Tenths * rdelay.max_delay
                   /\ i > 1 => rthist.waits[i - 1] <= rthist.waits[i]

(* without jitter, the blocking wrapper has waited base_delay and then
   max_delay, which the growth had passed *)
C33_Witness ==
    /\ rwrapper = "sync"
    /\ ~rdelay.jitter
    /\ Len(rthist.waits) = 2
    /\ rthist.waits[1] = Tenths * rdelay.base_delay
    /\ rthist.waits[1] < rthist.waits[2]
    /\ rthist.waits[2] = Tenths * rdelay.max_delay
    /\ rdelay.base_delay * rdelay.exponential_base > rdelay.max_delay

(* with jitter, the suspending wrapper has waited 10% longer than the
   delay *)
C33_WitnessJitter ==
    /\ rwrapper = "async"
    /\ rdelay.jitter
    /\ Len(rthist.waits) = 2
    /\ rthist.waits[2] > Backoff(1)
    /\ Tenths * rthist.waits[2] = Tenths * Backoff(1) + Backoff(1)

(* the scraper process of the last attempt exited with a non-zero code, and
   scrape_jobs has raised to its caller *)
ExitedNonZero ==
    /\ sj.pc = "done"
    /\ sj.out.raised
    /\ sj.runs # <<>>
    /\ sj.runs[Len(sj.runs)].kind = "exit"
    /\ sj.runs[Len(sj.runs)].returncode # 0

(* C32: when the scraper process exits with a non-zero code, what
   scrape_jobs raises to its caller, after its retries, is a ScrapingError
   whose details carry the source tag and, as error_code, the exit code *)
C32_ExitCodeCarried ==
    ExitedNonZero
    => /\ sj.out.exc.cls = "ScrapingError"
       /\ {"source", "error_code"} \subseteq DOMAIN sj.out.exc.details
       /\ sj.out.exc.details.source = <<"go_scraper">>
       /\ sj.out.exc.details.error_code
            = Str(sj.runs[Len(sj.runs)].returncode)

TypeOK ==
    /\ now \in 1..MaxTime
    /\ cb.state \in CircuitState
    /\ cb.failure_count \in Nat
    /\ cb.success_count \in Nat
=============================================================================
